---- MODULE Spec2Model ----
(***************************************************************************)
(* Block_Builder: the Soroban deployment pipeline (lib/soroban-deploy),    *)
(* the supply-amount parser it uses, and the Freighter wallet session hook *)
(* (lib/useWallet.ts), as state machines.                                  *)
(*                                                                         *)
(* Strings are sequences of one-character strings.  A bigint is a          *)
(* little-endian sequence of decimal digits without a most-significant     *)
(* zero (zero is the empty sequence), so that amounts are not limited by   *)
(* the width of the model checker's integers.                              *)
(***************************************************************************)
EXTENDS Integers, Sequences, FiniteSets, TLC

(***************************************************************************)
(* Bounds of the model.                                                    *)
(***************************************************************************)
\* longest supply string drawn over the whole alphabet
MaxLen == 3
\* longest fractional part of the structured decimal inputs
MaxFracLen == 8

(***************************************************************************)
(* Program constants.                                                      *)
(***************************************************************************)
TOKEN_DECIMALS == 7

TRANSACTION_POLL_INTERVAL_MS == 1000
TRANSACTION_POLL_TIMEOUT_MS == 60000

VARIABLES
    amount,      \* parser harness: the supply string handed to toBigIntAmount
    decimals,    \* parser harness: the precision handed to toBigIntAmount
    parsed,      \* parser harness: <<>> before the call, <<its outcome>> after it
    cachedTokenWasm, \* the module-level bytecode cache: <<>> while null, else <<the bytes>>
    cacheWrites, \* how many times cachedTokenWasm has been assigned
    overlap,     \* a deploySorobanContract call made while a run is in flight: where its fetchTokenWasm is
    runs,        \* deploySorobanContract calls started so far in this process
    pc,          \* the call the current run awaits, or idle / done / failed
    stage,       \* the pipeline stage the current run is in
    initialSupply,   \* params.initialSupply of the current run
    calls,       \* per stage and kind, the external calls the current run has issued
    simReport,   \* per stage, what the simulator answered
    txHash,      \* per stage, the hash sendTransaction returned
    txStatus,    \* per stage, the last status the run saw for its transaction
    txReturn,    \* per stage, the shape of the confirmed transaction's returnValue
    polls,       \* getTransaction calls issued for the current transaction
    elapsed,     \* Date.now() - startedAt of the current waitForTransaction
    mintAmount,  \* <<>> until line 254 has run, then <<the scaled amount>>
    mintOpAmount,    \* <<>>, or <<the amount argument of the mint operation>>
    result,      \* how the current run ended: the value returned or the error thrown
    walletAddress,   \* useWallet state: the account, or Null
    network,     \* useWallet state: the network key
    chainId,     \* useWallet state: <<>> while null, else <<the chain id>>
    server,      \* useWallet state: the RPC server's url, or Null
    isConnecting,    \* useWallet state
    error,       \* useWallet state: the last error message, or Null
    isFreighterInstalled,    \* useWallet state
    freighterApi,    \* whether window.freighterApi is defined
    probe,       \* the mount effect: whether it ran, its timer, checksRemaining
    refreshCall, \* the refreshConnection calls in flight, by who started them
    connectCall, \* the connect call in flight (its pc and its argument), and how the last one ended
    disconnectCall,  \* the disconnect call in flight, and how the last one ended
    switchCall,  \* the switchNetwork call in flight (its pc and its argument), and how the last one ended
    callsMade,   \* how many times the component has called into the hook
    extensionCalls,  \* the calls made to the extension's API: who called what with which arguments
    extensionNetwork,    \* the network selected in the extension, by the name getNetwork reports
    configCall,  \* config harness: the network-config function called and its arguments
    configResult,    \* config harness: <<>> before the call, <<its outcome>> after it
    isOpen,      \* DeployModal prop: whether the modal is shown
    step,        \* DeployModal state
    selectedNetwork, \* DeployModal state
    loading,     \* DeployModal state
    modalError,  \* DeployModal state `error`: the message, or Null
    summary,     \* DeployModal state: <<>> while null, else <<the summary of the last successful deployment>>
    deployerModule,  \* which module "@/lib/soroban-deployer" resolves to in the build
    deployRuns,  \* the deploySorobanContract calls handleDeploy has made, in order
    deployedContracts    \* the builder store's deployed contracts, as added by addDeployedContract

varsAmount == <<amount, decimals, parsed>>
varsDeploy == <<cachedTokenWasm, cacheWrites, overlap, runs, pc, stage, initialSupply, calls, simReport,
                txHash, txStatus, txReturn, polls, elapsed, mintAmount,
                mintOpAmount, result>>
varsWallet == <<walletAddress, network, chainId, server, isConnecting, error,
                isFreighterInstalled, freighterApi, probe, refreshCall,
                connectCall, disconnectCall, switchCall, callsMade,
                extensionCalls, extensionNetwork>>
varsConfig == <<configCall, configResult>>
varsModal == <<isOpen, step, selectedNetwork, loading, modalError, summary, deployerModule,
               deployRuns, deployedContracts>>
vars == <<amount, decimals, parsed, cachedTokenWasm, cacheWrites, overlap, runs, pc, stage,
          initialSupply, calls, simReport, txHash, txStatus, txReturn, polls,
          elapsed, mintAmount, mintOpAmount, result, walletAddress, network,
          chainId, server, isConnecting, error, isFreighterInstalled,
          freighterApi, probe, refreshCall, connectCall, disconnectCall,
          switchCall, callsMade, extensionCalls, extensionNetwork, configCall,
          configResult,
          isOpen, step, selectedNetwork, loading, modalError, summary, deployerModule,
          deployRuns, deployedContracts>>

Null == "null"

(***************************************************************************)
(* Strings.                                                                *)
(***************************************************************************)
DigitChars == <<"0", "1", "2", "3", "4", "5", "6", "7", "8", "9">>

IsDigit(c) == \E i \in 1..10 : DigitChars[i] = c

DigitVal(c) == (CHOOSE i \in 1..10 : DigitChars[i] = c) - 1

IsSpace(c) == c = " "

Str(s) == [i \in 1..Len(s) |-> s[i]]

Reverse(s) == [i \in 1..Len(s) |-> s[Len(s) + 1 - i]]

Repeat(c, n) == [i \in 1..n |-> c]

\* String.prototype.trim
RECURSIVE TrimStart(_)
TrimStart(s) ==
    IF s # <<>> /\ IsSpace(Head(s)) THEN TrimStart(Tail(s)) ELSE s

Trim(s) == Reverse(TrimStart(Reverse(TrimStart(s))))

\* mutant: String.prototype.padStart(n, "0")
PadStart(s, n) == IF Len(s) >= n THEN s ELSE Repeat("0", n - Len(s)) \o s

\* String.prototype.padEnd(n, "0")
\* mutant: the fractional digits taken as they are, without padding
PadEnd_none(s, n) == s

PadEnd(s, n) == IF Len(s) >= n THEN s ELSE s \o Repeat("0", n - Len(s))

\* the positions of "." in s
DotsOf(s) == {i \in 1..Len(s) : s[i] = "."}

Min(S) == CHOOSE x \in S : \A y \in S : x <= y

\* const [whole, fraction = ""] = base.split(".")
SplitWhole(base) ==
    IF DotsOf(base) = {} THEN base ELSE SubSeq(base, 1, Min(DotsOf(base)) - 1)

SplitFraction(base) ==
    IF DotsOf(base) = {} THEN <<>>
    ELSE LET rest == SubSeq(base, Min(DotsOf(base)) + 1, Len(base))
         IN  IF DotsOf(rest) = {} THEN rest
             ELSE SubSeq(rest, 1, Min(DotsOf(rest)) - 1)

\* /^[0-9]+(\.[0-9]+)?$/.test(base)
NumericPattern(base) ==
    \/ /\ Len(base) >= 1
       /\ \A i \in 1..Len(base) : IsDigit(base[i])
    \/ \E p \in 2..(Len(base) - 1) :
          /\ base[p] = "."
          /\ \A i \in 1..Len(base) : i # p => IsDigit(base[i])

(***************************************************************************)
(* BigInt arithmetic.                                                      *)
(***************************************************************************)
RECURSIVE BigNorm(_)
BigNorm(a) ==
    IF a = <<>> THEN <<>>
    ELSE IF a[Len(a)] = 0 THEN BigNorm(SubSeq(a, 1, Len(a) - 1))
    ELSE a

\* BigInt(<decimal digit string>)
BigFromString(s) == BigNorm(Reverse([i \in 1..Len(s) |-> DigitVal(s[i])]))

RECURSIVE BigAddCarry(_, _, _)
BigAddCarry(a, b, c) ==
    IF a = <<>> /\ b = <<>> THEN (IF c = 0 THEN <<>> ELSE <<c>>)
    ELSE LET x == IF a = <<>> THEN 0 ELSE Head(a)
             y == IF b = <<>> THEN 0 ELSE Head(b)
             s == x + y + c
         IN  <<s % 10>> \o BigAddCarry(IF a = <<>> THEN <<>> ELSE Tail(a),
                                       IF b = <<>> THEN <<>> ELSE Tail(b),
                                       s \div 10)

BigAdd(a, b) ==
    IF a = <<>> THEN b ELSE IF b = <<>> THEN a ELSE BigNorm(BigAddCarry(a, b, 0))

RECURSIVE BigMulDigit(_, _, _)
BigMulDigit(a, d, c) ==
    IF a = <<>> THEN (IF c = 0 THEN <<>> ELSE <<c>>)
    ELSE LET p == Head(a) * d + c
         IN  <<p % 10>> \o BigMulDigit(Tail(a), d, p \div 10)

RECURSIVE BigMul(_, _)
BigMul(a, b) ==
    IF a = <<>> \/ b = <<>> THEN <<>>
    ELSE LET rest == BigMul(a, Tail(b))
             shifted == IF rest = <<>> THEN <<>> ELSE <<0>> \o rest
         IN  IF Head(b) = 0 THEN shifted
             ELSE BigAdd(BigMulDigit(a, Head(b), 0), shifted)

RECURSIVE BigPow(_, _)
BigPow(a, n) == IF n = 0 THEN <<1>> ELSE BigMul(BigPow(a, n - 1), a)

\* BigInt(n) of a small number
RECURSIVE BigOfNat(_)
BigOfNat(n) == IF n = 0 THEN <<>> ELSE <<n % 10>> \o BigOfNat(n \div 10)

BigIsPositive(a) == a # <<>>

(***************************************************************************)
(* toBigIntAmount(amount, decimals): the scaled amount, or the error it    *)
(* throws.                                                                 *)
(***************************************************************************)
Threw(msg) == [ok |-> FALSE, value |-> <<>>, error |-> msg]
Returned(v) == [ok |-> TRUE, value |-> v, error |-> ""]

toBigIntAmount(amt, dec) ==
    LET base == Trim(amt)
        whole == SplitWhole(base)
        fraction == SplitFraction(base)
        scaledWhole ==
            BigMul(BigFromString(IF whole = <<>> THEN <<"0">> ELSE whole),
                   BigPow(BigOfNat(10), dec))
        fractionPadded == PadEnd(fraction, dec)
        scaledFraction ==
            BigFromString(IF fractionPadded = <<>> THEN <<"0">> ELSE fractionPadded)
    IN  IF base = <<>> THEN Threw("Initial supply is required")
        ELSE IF ~NumericPattern(base)
            THEN Threw("Initial supply must be a numeric value")
        ELSE IF Len(fraction) > dec
            THEN Threw("Initial supply supports at most decimals decimal places")
        ELSE Returned(BigAdd(scaledWhole, scaledFraction))

(***************************************************************************)
(* The parser on its own: one call on an input drawn from AmountInputs.    *)
(***************************************************************************)
Alphabet == {"0", "1", "7", ".", "x", " "}

RECURSIVE StringsUpTo(_, _)
StringsUpTo(A, n) ==
    IF n = 0 THEN {<<>>}
    ELSE LET shorter == StringsUpTo(A, n - 1)
         IN  shorter \cup {Str(s \o <<c>>) : s \in {t \in shorter : Len(t) = n - 1}, c \in A}

\* 2^53 + 1, the first whole number a double cannot hold
BeyondDouble ==
    <<"9", "0", "0", "7", "1", "9", "9", "2", "5", "4", "7", "4", "0", "9", "9", "3">>

Wholes == {<<"0">>, <<"4", "2">>, <<"1", "0", "0", "0", "0", "0", "0">>, BeyondDouble}

DecimalInputs ==
    {Str(w \o <<".">> \o f) : w \in Wholes,
                              f \in StringsUpTo({"0", "5"}, MaxFracLen) \ {<<>>}}

AmountInputs == StringsUpTo(Alphabet, MaxLen) \cup Wholes \cup DecimalInputs

Precisions == {0, 2, TOKEN_DECIMALS}

AmountIdle ==
    /\ amount = <<>>
    /\ decimals = TOKEN_DECIMALS
    /\ parsed = <<>>

ParseAmount ==
    /\ parsed = <<>>
    /\ parsed' = <<toBigIntAmount(amount, decimals)>>
    /\ UNCHANGED <<amount, decimals>>
    /\ UNCHANGED <<varsDeploy, varsWallet, varsConfig, varsModal>>

NextAmount == ParseAmount

(***************************************************************************)
(* deploySorobanContract: one run at a time, each action the code between  *)
(* two awaits: it takes the settled call's outcome and runs up to the next *)
(* call the run issues.                                                    *)
(***************************************************************************)
\* deploySorobanContract calls in one process lifetime
MaxRuns == 2
\* the longest one round of waitForTransaction's loop (the RPC answer and the
\* timer) takes beyond the poll interval, in ms
MaxDelayMs == 45000

Stages == <<"upload", "create", "init", "mint">>
StageSet == {"upload", "create", "init", "mint"}
StageIndex(s) == CHOOSE i \in 1..4 : Stages[i] = s

CallKinds == {"getAccount", "simulate", "sign", "send"}
FetchCall == <<"artifact", "fetch">>
CallKeys == (StageSet \X CallKinds) \cup {FetchCall}
NoCalls == [k \in CallKeys |-> 0]
Issue(c, key) == [c EXCEPT ![key] = @ + 1]

NoHash == [run |-> 0, n |-> 0]
\* simulated is what reading the value's simulated property gives: "true",
\* "false", or "undefined" where the value has no such property
NoResult == [status |-> "pending", error |-> "", contractId |-> NoHash,
             transactionId |-> NoHash, simulated |-> "undefined"]
NoneYet == [s \in StageSet |-> "none"]
NoHashes == [s \in StageSet |-> NoHash]

\* what the collaborators may answer
Supplies ==
    { <<>>, <<"0">>, <<"x", "1">>,
      <<"1", "0", "0", "0", "0", "0", "0">>,
      <<" ", "1", ".", "5">>,
      <<"0", ".", "0", "0", "0", "0", "0", "0", "0", "1">> }
FetchOutcomes == {"ok", "not-ok", "threw"}
SimReports == {"ok", "HostError: Error(Budget, ExceededLimit)",
               "HostError: Error(Storage, MissingValue)"}
SendStatuses == {"PENDING", "ERROR"}
TxStatuses == {"NOT_FOUND", "SUCCESS", "FAILED"}
Delays == {0, MaxDelayMs}
ReturnShapes(s) ==
    IF s = "upload" THEN {"scvBytes", "scvVoid", "absent"}
    ELSE IF s = "create" THEN {"scvAddress", "scvBytes", "absent"}
    ELSE {"scvVoid"}

\* only a successful transaction carries a returnValue
ShapeSeen(status, shape) == IF status = "SUCCESS" THEN shape ELSE "absent"

\* mutant: the simulation error is not looked at
IsSimulationError_never(report) == FALSE

\* rpc.Api.isSimulationError(simulation)
IsSimulationError(report) == report # "ok"

\* mutant: the deadline itself is still within the window
WithinPollWindow_inclusive(e) == e <= TRANSACTION_POLL_TIMEOUT_MS

\* Date.now() - startedAt < TRANSACTION_POLL_TIMEOUT_MS
WithinPollWindow(e) == e < TRANSACTION_POLL_TIMEOUT_MS

\* result.status === "SUCCESS" || result.status === "FAILED"
IsTerminalStatus(st) == st = "SUCCESS" \/ st = "FAILED"

\* mutant: any terminal status counts as confirmed
IsConfirmed_anyTerminal(st) == TRUE

\* finalResult.status !== "SUCCESS" is what signAndSendTransaction throws on
IsConfirmed(st) == st = "SUCCESS"

\* initialSupply || "0"
SupplyOrZero(s) == IF s = <<>> THEN <<"0">> ELSE s

\* mutant: mintAmount >= BigInt(0)
ShouldMint_always(m) == TRUE

\* mintAmount > BigInt(0)
ShouldMint(m) == BigIsPositive(m)

\* nativeToScVal(mintAmount, { type: "i128" })
MintArgument(m) == m

\* mutant: the creation hash is returned whether or not the run minted
ResultTransactionId_creation(minted, hashes) == hashes["create"]

\* the transactionId of the value returned
ResultTransactionId(minted, hashes) ==
    IF minted THEN hashes["mint"] ELSE hashes["create"]

DeployIdle ==
    /\ cachedTokenWasm = <<>>
    /\ cacheWrites = 0
    /\ overlap = "none"
    /\ runs = 0
    /\ pc = "idle"
    /\ stage = "artifact"
    /\ initialSupply = <<>>
    /\ calls = NoCalls
    /\ simReport = NoneYet
    /\ txHash = NoHashes
    /\ txStatus = NoneYet
    /\ txReturn = NoneYet
    /\ polls = 0
    /\ elapsed = 0
    /\ mintAmount = <<>>
    /\ mintOpAmount = <<>>
    /\ result = NoResult

\* throw new Error(msg), which nothing in the run catches
Abort(msg) ==
    /\ pc' = "failed"
    /\ result' = [NoResult EXCEPT !.status = "threw", !.error = msg]

\* a stage's first call, server.getAccount(accountId)
Begin(s) ==
    /\ pc' = "getAccount"
    /\ stage' = s
    /\ calls' = Issue(calls, <<s, "getAccount">>)
    /\ polls' = 0
    /\ elapsed' = 0

\* the value deploySorobanContract returns, lines 265-269 and 272-276: an
\* object of contractId, transactionId and explorerUrl
Done(minted) ==
    /\ pc' = "done"
    /\ result' = [status |-> "returned", error |-> "",
                  contractId |-> txHash["create"],
                  transactionId |-> ResultTransactionId(minted, txHash),
                  simulated |-> "undefined"]

\* mutant: the cache is not looked at
CacheHit_never(cache) == FALSE

\* if (cachedTokenWasm)
CacheHit(cache) == cache # <<>>

\* lines 226-231: the call, up to the fetch or (cache filled) the first getAccount
deploySorobanContract(supply) ==
    /\ pc \in {"idle", "done", "failed"}
    /\ runs < MaxRuns
    /\ runs' = runs + 1
    /\ initialSupply' = supply
    /\ simReport' = NoneYet
    /\ txHash' = NoHashes
    /\ txStatus' = NoneYet
    /\ txReturn' = NoneYet
    /\ polls' = 0
    /\ elapsed' = 0
    /\ mintAmount' = <<>>
    /\ mintOpAmount' = <<>>
    /\ result' = NoResult
    /\ IF CacheHit(cachedTokenWasm)
       THEN /\ pc' = "getAccount"
            /\ stage' = "upload"
            /\ calls' = Issue(NoCalls, <<"upload", "getAccount">>)
       ELSE /\ pc' = "fetch"
            /\ stage' = "artifact"
            /\ calls' = Issue(NoCalls, FetchCall)
    /\ UNCHANGED <<cachedTokenWasm, cacheWrites, overlap>>
    /\ UNCHANGED <<varsAmount, varsWallet, varsConfig, varsModal>>

\* fetchTokenWasm, lines 70-77, then installContractCode's getAccount
FetchSettled(outcome) ==
    /\ pc = "fetch"
    /\ IF outcome = "ok"
       THEN /\ cachedTokenWasm' = <<"wasm">>
            /\ cacheWrites' = cacheWrites + 1
            /\ Begin("upload")
            /\ UNCHANGED <<result, overlap>>
       ELSE /\ Abort(IF outcome = "not-ok"
                     THEN "Failed to download Soroban token contract WASM"
                     ELSE "Failed to fetch")
            /\ UNCHANGED <<cachedTokenWasm, cacheWrites, overlap, stage, calls, polls, elapsed>>
    /\ UNCHANGED <<runs, initialSupply, simReport, txHash, txStatus, txReturn,
                   mintAmount, mintOpAmount>>
    /\ UNCHANGED <<varsAmount, varsWallet, varsConfig, varsModal>>

\* the bytes the remote file may hold when it is fetched again: the file is
\* the head of a branch
WasmRevisions == {"wasm", "wasm-2"}

\* deploySorobanContract is called while the run before it is in flight; the
\* call is followed through fetchTokenWasm, lines 65-78, where it meets the
\* cache, and no further
deployOverlapping ==
    /\ pc \notin {"idle", "done", "failed"}
    /\ overlap = "none"
    /\ runs < MaxRuns
    /\ runs' = runs + 1
    /\ overlap' = IF CacheHit(cachedTokenWasm) THEN "cached" ELSE "fetch"
    /\ UNCHANGED <<cachedTokenWasm, cacheWrites, pc, stage, initialSupply, calls,
                   simReport, txHash, txStatus, txReturn, polls, elapsed,
                   mintAmount, mintOpAmount, result>>
    /\ UNCHANGED <<varsAmount, varsWallet, varsConfig, varsModal>>

\* fetchTokenWasm of the overlapping call, lines 70-77
OverlappingFetchSettled(outcome, bytes) ==
    /\ overlap = "fetch"
    /\ IF outcome = "ok"
       THEN /\ cachedTokenWasm' = <<bytes>>
            /\ cacheWrites' = cacheWrites + 1
            /\ overlap' = "fetched"
       ELSE /\ overlap' = "failed"
            /\ UNCHANGED <<cachedTokenWasm, cacheWrites>>
    /\ UNCHANGED <<runs, pc, stage, initialSupply, calls, simReport, txHash,
                   txStatus, txReturn, polls, elapsed, mintAmount, mintOpAmount,
                   result>>
    /\ UNCHANGED <<varsAmount, varsWallet, varsConfig, varsModal>>

\* the stage's transaction is built and handed to simulateAndAssemble
GetAccountSettled(ok) ==
    /\ pc = "getAccount"
    /\ IF ok
       THEN /\ pc' = "simulate"
            /\ calls' = Issue(calls, <<stage, "simulate">>)
            /\ UNCHANGED result
       ELSE /\ Abort("Account not found")
            /\ UNCHANGED calls
    /\ UNCHANGED <<cachedTokenWasm, cacheWrites, overlap, runs, stage, initialSupply, simReport, txHash,
                   txStatus, txReturn, polls, elapsed, mintAmount, mintOpAmount>>
    /\ UNCHANGED <<varsAmount, varsWallet, varsConfig, varsModal>>

\* simulateAndAssemble, lines 81-86, then signAndSendTransaction's signature request
SimulateSettled(report) ==
    /\ pc = "simulate"
    /\ simReport' = [simReport EXCEPT ![stage] = report]
    /\ IF IsSimulationError(report)
       THEN /\ Abort(report)
            /\ UNCHANGED calls
       ELSE /\ pc' = "sign"
            /\ calls' = Issue(calls, <<stage, "sign">>)
            /\ UNCHANGED result
    /\ UNCHANGED <<cachedTokenWasm, cacheWrites, overlap, runs, stage, initialSupply, txHash, txStatus,
                   txReturn, polls, elapsed, mintAmount, mintOpAmount>>
    /\ UNCHANGED <<varsAmount, varsWallet, varsConfig, varsModal>>

\* what Freighter.signTransaction may do: resolve with the signed envelope,
\* reject, or resolve with an error and no envelope
SignAnswers == {"signed", "rejected", "error"}

\* the message the run fails with when no signed envelope came back: the
\* wallet's own when the call rejects, the decoder's when
\* TransactionBuilder.fromXDR (line 106) is handed no envelope
SignFailureMessage(answer) ==
    IF answer = "rejected" THEN "The user rejected this request"
    ELSE "fromXDR: signedTxXdr is not a transaction envelope"

\* mutant: only a rejected call stops the run
Signed_unlessRejected(answer) == answer # "rejected"

\* the call resolved and line 106 decoded signResult.signedTxXdr
Signed(answer) == answer = "signed"

\* signAndSendTransaction, lines 102-107
SignSettled(answer) ==
    /\ pc = "sign"
    /\ IF Signed(answer)
       THEN /\ pc' = "send"
            /\ calls' = Issue(calls, <<stage, "send">>)
            /\ UNCHANGED result
       ELSE /\ Abort(SignFailureMessage(answer))
            /\ UNCHANGED calls
    /\ UNCHANGED <<cachedTokenWasm, cacheWrites, overlap, runs, stage, initialSupply, simReport, txHash,
                   txStatus, txReturn, polls, elapsed, mintAmount, mintOpAmount>>
    /\ UNCHANGED <<varsAmount, varsWallet, varsConfig, varsModal>>

\* mutant: the hash is not looked at
MissingHash_never(hasHash) == FALSE

\* !sendResponse.hash
MissingHash(hasHash) == ~hasHash

\* signAndSendTransaction, lines 107-117, into waitForTransaction's first poll
SendSettled(status, hasHash) ==
    /\ pc = "send"
    /\ txStatus' = [txStatus EXCEPT ![stage] = status]
    /\ txHash' = [txHash EXCEPT
                    ![stage] = IF hasHash
                               THEN [run |-> runs, n |-> StageIndex(stage)]
                               ELSE NoHash]
    /\ IF status = "ERROR"
       THEN /\ Abort("Soroban RPC rejected the transaction")
            /\ UNCHANGED <<polls, elapsed>>
       ELSE IF MissingHash(hasHash)
       THEN /\ Abort("Soroban RPC did not return a transaction hash")
            /\ UNCHANGED <<polls, elapsed>>
       ELSE /\ elapsed' = 0
            /\ IF WithinPollWindow(0)
               THEN /\ pc' = "getTransaction"
                    /\ polls' = polls + 1
                    /\ UNCHANGED result
               ELSE /\ Abort("Timed out waiting for Soroban transaction confirmation")
                    /\ UNCHANGED polls
    /\ UNCHANGED <<cachedTokenWasm, cacheWrites, overlap, runs, stage, initialSupply, calls, simReport,
                   txReturn, mintAmount, mintOpAmount>>
    /\ UNCHANGED <<varsAmount, varsWallet, varsConfig, varsModal>>

\* waitForTransaction, lines 92-96: the poll saw no terminal status, the run sleeps
TransactionPending(status) ==
    /\ pc = "getTransaction"
    /\ ~IsTerminalStatus(status)
    /\ txStatus' = [txStatus EXCEPT ![stage] = status]
    /\ pc' = "sleep"
    /\ UNCHANGED <<cachedTokenWasm, cacheWrites, overlap, runs, stage, initialSupply, calls, simReport,
                   txHash, txReturn, polls, elapsed, mintAmount, mintOpAmount,
                   result>>
    /\ UNCHANGED <<varsAmount, varsWallet, varsConfig, varsModal>>

\* mutant: the failure is reported as the polling deadline is
TransactionFailedMessage_asTimeout ==
    "Timed out waiting for Soroban transaction confirmation"

\* throw new Error("Soroban transaction failed")
TransactionFailedMessage == "Soroban transaction failed"

\* waitForTransaction returns a terminal status that signAndSendTransaction,
\* lines 117-120, throws on
TransactionFailed(status) ==
    /\ pc = "getTransaction"
    /\ IsTerminalStatus(status)
    /\ ~IsConfirmed(status)
    /\ txStatus' = [txStatus EXCEPT ![stage] = status]
    /\ Abort(TransactionFailedMessage)
    /\ elapsed' = 0
    /\ UNCHANGED <<cachedTokenWasm, cacheWrites, overlap, runs, stage, initialSupply, calls, simReport,
                   txHash, txReturn, polls, mintAmount, mintOpAmount>>
    /\ UNCHANGED <<varsAmount, varsWallet, varsConfig, varsModal>>

\* mutant: any return value that is present is accepted
HasShape_present(shape, expected) == shape # "absent"

\* returnValue && returnValue.switch().name === expected
HasShape(shape, expected) == shape = expected

\* installContractCode, lines 149-157, then createContractInstance's getAccount
UploadConfirmed(status, shape) ==
    /\ pc = "getTransaction"
    /\ stage = "upload"
    /\ IsTerminalStatus(status)
    /\ IsConfirmed(status)
    /\ txStatus' = [txStatus EXCEPT ![stage] = status]
    /\ txReturn' = [txReturn EXCEPT ![stage] = shape]
    /\ IF ~HasShape(shape, "scvBytes")
       THEN /\ Abort("Unexpected response when uploading contract WASM")
            /\ elapsed' = 0
            /\ UNCHANGED <<stage, calls, polls>>
       ELSE /\ Begin("create")
            /\ UNCHANGED result
    /\ UNCHANGED <<cachedTokenWasm, cacheWrites, overlap, runs, initialSupply, simReport, txHash,
                   mintAmount, mintOpAmount>>
    /\ UNCHANGED <<varsAmount, varsWallet, varsConfig, varsModal>>

\* createContractInstance, lines 195-204, then lines 241-252 and invokeContract's
\* getAccount for initialize
CreateConfirmed(status, shape) ==
    /\ pc = "getTransaction"
    /\ stage = "create"
    /\ IsTerminalStatus(status)
    /\ IsConfirmed(status)
    /\ txStatus' = [txStatus EXCEPT ![stage] = status]
    /\ txReturn' = [txReturn EXCEPT ![stage] = shape]
    /\ IF ~HasShape(shape, "scvAddress")
       THEN /\ Abort("Unexpected response when creating the contract instance")
            /\ elapsed' = 0
            /\ UNCHANGED <<stage, calls, polls>>
       ELSE /\ Begin("init")
            /\ UNCHANGED result
    /\ UNCHANGED <<cachedTokenWasm, cacheWrites, overlap, runs, initialSupply, simReport, txHash,
                   mintAmount, mintOpAmount>>
    /\ UNCHANGED <<varsAmount, varsWallet, varsConfig, varsModal>>

\* lines 252-277: initialize is confirmed, the supply is parsed, and the run
\* either starts the mint stage or returns
InitConfirmed(status, shape) ==
    /\ pc = "getTransaction"
    /\ stage = "init"
    /\ IsTerminalStatus(status)
    /\ IsConfirmed(status)
    /\ txStatus' = [txStatus EXCEPT ![stage] = status]
    /\ txReturn' = [txReturn EXCEPT ![stage] = shape]
    /\ LET m == toBigIntAmount(SupplyOrZero(initialSupply), TOKEN_DECIMALS)
       IN  IF ~m.ok
           THEN /\ Abort(m.error)
                /\ elapsed' = 0
                /\ UNCHANGED <<stage, calls, polls, mintAmount, mintOpAmount>>
           ELSE IF ShouldMint(m.value)
           THEN /\ mintAmount' = <<m.value>>
                /\ mintOpAmount' = <<MintArgument(m.value)>>
                /\ Begin("mint")
                /\ UNCHANGED result
           ELSE /\ mintAmount' = <<m.value>>
                /\ Done(FALSE)
                /\ elapsed' = 0
                /\ UNCHANGED <<stage, calls, polls, mintOpAmount>>
    /\ UNCHANGED <<cachedTokenWasm, cacheWrites, overlap, runs, initialSupply, simReport, txHash>>
    /\ UNCHANGED <<varsAmount, varsWallet, varsConfig, varsModal>>

\* lines 262-269: the mint transaction is confirmed and the run returns
MintConfirmed(status, shape) ==
    /\ pc = "getTransaction"
    /\ stage = "mint"
    /\ IsTerminalStatus(status)
    /\ IsConfirmed(status)
    /\ txStatus' = [txStatus EXCEPT ![stage] = status]
    /\ txReturn' = [txReturn EXCEPT ![stage] = shape]
    /\ Done(TRUE)
    /\ elapsed' = 0
    /\ UNCHANGED <<cachedTokenWasm, cacheWrites, overlap, runs, stage, initialSupply, calls, simReport,
                   txHash, polls, mintAmount, mintOpAmount>>
    /\ UNCHANGED <<varsAmount, varsWallet, varsConfig, varsModal>>

\* waitForTransaction, lines 96-98 and 91: the timer fires and the loop tests
\* again; late is the time the round took beyond the interval
PollTimerFired(late) ==
    /\ pc = "sleep"
    /\ LET now == elapsed + TRANSACTION_POLL_INTERVAL_MS + late
       IN  IF WithinPollWindow(now)
           THEN /\ pc' = "getTransaction"
                /\ polls' = polls + 1
                /\ elapsed' = now
                /\ UNCHANGED result
           ELSE /\ Abort("Timed out waiting for Soroban transaction confirmation")
                /\ elapsed' = 0
                /\ UNCHANGED polls
    /\ UNCHANGED <<cachedTokenWasm, cacheWrites, overlap, runs, stage, initialSupply, calls, simReport,
                   txHash, txStatus, txReturn, mintAmount, mintOpAmount>>
    /\ UNCHANGED <<varsAmount, varsWallet, varsConfig, varsModal>>

NextDeploy ==
    \/ \E supply \in Supplies : deploySorobanContract(supply)
    \/ \E outcome \in FetchOutcomes : FetchSettled(outcome)
    \/ deployOverlapping
    \/ \E outcome \in FetchOutcomes, bytes \in WasmRevisions :
          OverlappingFetchSettled(outcome, bytes)
    \/ \E ok \in BOOLEAN : GetAccountSettled(ok)
    \/ \E report \in SimReports : SimulateSettled(report)
    \/ \E answer \in SignAnswers : SignSettled(answer)
    \/ \E status \in SendStatuses, hasHash \in BOOLEAN : SendSettled(status, hasHash)
    \/ \E status \in TxStatuses : TransactionPending(status)
    \/ \E status \in TxStatuses : TransactionFailed(status)
    \/ \E status \in TxStatuses, shape \in ReturnShapes("upload") :
          UploadConfirmed(status, ShapeSeen(status, shape))
    \/ \E status \in TxStatuses, shape \in ReturnShapes("create") :
          CreateConfirmed(status, ShapeSeen(status, shape))
    \/ \E status \in TxStatuses, shape \in ReturnShapes("init") :
          InitConfirmed(status, ShapeSeen(status, shape))
    \/ \E status \in TxStatuses, shape \in ReturnShapes("mint") :
          MintConfirmed(status, ShapeSeen(status, shape))
    \/ \E late \in Delays : PollTimerFired(late)

(***************************************************************************)
(* celo-config: the network table.                                         *)
(***************************************************************************)
\* JavaScript values: a reference to an object (two references are equal when
\* they name the same object), a string (a sequence of its parts), null,
\* undefined
JsObject(id) == [kind |-> "object", value |-> <<id>>]
JsString(parts) == [kind |-> "string", value |-> parts]
JsNull == [kind |-> "null", value |-> <<>>]
JsUndefined == [kind |-> "undefined", value |-> <<>>]
TypeError == [kind |-> "TypeError", value |-> <<>>]

\* the two object literals of BASE_NETWORKS, by the key each is defined under;
\* friendbotUrl is <<>> where the literal has none
BASE_NETWORKS ==
    [testnet |-> [name |-> "Stellar Soroban Testnet", chainId |-> 0,
                  rpcUrl |-> "https://soroban-testnet.stellar.org",
                  horizonUrl |-> "https://horizon-testnet.stellar.org",
                  explorerUrl |-> "https://stellar.expert/explorer/testnet",
                  networkPassphrase |-> "Networks.TESTNET",
                  friendbotUrl |-> <<"https://friendbot.stellar.org">>,
                  testnet |-> TRUE],
     mainnet |-> [name |-> "Stellar Soroban Mainnet", chainId |-> 1,
                  rpcUrl |-> "https://soroban-rpc.stellar.org",
                  horizonUrl |-> "https://horizon.stellar.org",
                  explorerUrl |-> "https://stellar.expert/explorer/public",
                  networkPassphrase |-> "Networks.PUBLIC",
                  friendbotUrl |-> <<>>,
                  testnet |-> FALSE]]

\* mutant: the alias points at the other network's object
CELO_NETWORKS_sepoliaMainnet ==
    [testnet |-> JsObject("testnet"),
     mainnet |-> JsObject("mainnet"),
     sepolia |-> JsObject("mainnet")]

\* CELO_NETWORKS: each key holds a reference to an object of BASE_NETWORKS
CELO_NETWORKS ==
    [testnet |-> JsObject("testnet"),
     mainnet |-> JsObject("mainnet"),
     sepolia |-> JsObject("testnet")]

\* table[key]: undefined for a key the object does not have
Index(table, key) == IF key \in DOMAIN table THEN table[key] ELSE JsUndefined

\* a parameter's default value stands in for undefined
OrDefault(arg, default) == IF arg = "undefined" THEN default ELSE arg

\* the object a reference names
Deref(ref) == BASE_NETWORKS[ref.value[1]]

\* normalizeNetworkKey
normalizeNetworkKey(key) == IF key = "sepolia" THEN "testnet" ELSE key

\* getNetworkConfig(network = "testnet")
getNetworkConfig(key) == Index(CELO_NETWORKS, OrDefault(key, "testnet"))

\* config.field, which throws a TypeError on undefined
Field(config, field) ==
    IF config.kind = "object" THEN JsString(<<Deref(config)[field]>>) ELSE TypeError

\* getSorobanServer: the server, by the url it is constructed with
getSorobanServer(key) == Field(getNetworkConfig(key), "rpcUrl")

\* getHorizonServer: the server, by the url it is constructed with
getHorizonServer(key) == Field(getNetworkConfig(key), "horizonUrl")

\* getNetworkPassphrase
getNetworkPassphrase(key) == Field(getNetworkConfig(key), "networkPassphrase")

\* getExplorerUrl(identifier, network = "testnet", type = "tx")
getExplorerUrl(identifier, key, type) ==
    LET normalizedNetwork == normalizeNetworkKey(OrDefault(key, "testnet"))
        path == IF OrDefault(type, "tx") = "account"
                THEN <<"/account/", identifier>> ELSE <<"/tx/", identifier>>
    IN  IF normalizedNetwork \in DOMAIN BASE_NETWORKS
        THEN JsString(<<BASE_NETWORKS[normalizedNetwork].explorerUrl>> \o path)
        ELSE TypeError

\* getFriendbotUrl(publicKey, network = "testnet")
getFriendbotUrl(publicKey, key) ==
    LET config == getNetworkConfig(key)
    IN  IF config.kind # "object" THEN TypeError
        ELSE IF Deref(config).friendbotUrl = <<>> THEN JsNull
        ELSE JsString(Deref(config).friendbotUrl \o <<"?addr=", publicKey>>)

\* StellarNetworkKey
TargetNetworks == {"testnet", "mainnet", "sepolia"}

\* the keys the functions are called with: the three of StellarNetworkKey, a
\* key retired with the Celo networks, an unknown one, and an omitted argument
NetworkKeys == TargetNetworks \cup {"alfajores", "futurenet", "undefined"}
Identifiers == {"GA", "GB", "abc123"}
ExplorerTypes == {"tx", "account", "undefined"}

NoArgument == "-"

\* the calls into the module: the exported functions and the exported table
ConfigCalls ==
    {[fn |-> f, key |-> k, identifier |-> NoArgument, type |-> NoArgument] :
        f \in {"getNetworkConfig", "CELO_NETWORKS", "getSorobanServer",
                "getHorizonServer", "getNetworkPassphrase"},
        k \in NetworkKeys}
    \cup {[fn |-> "getFriendbotUrl", key |-> k, identifier |-> i,
            type |-> NoArgument] : k \in NetworkKeys, i \in Identifiers}
    \cup {[fn |-> "getExplorerUrl", key |-> k, identifier |-> i, type |-> t] :
            k \in NetworkKeys, i \in Identifiers, t \in ExplorerTypes}

\* what the call evaluates to
ConfigValue(call) ==
    CASE call.fn = "getNetworkConfig" -> getNetworkConfig(call.key)
      [] call.fn = "CELO_NETWORKS" -> Index(CELO_NETWORKS, call.key)
      [] call.fn = "getSorobanServer" -> getSorobanServer(call.key)
      [] call.fn = "getHorizonServer" -> getHorizonServer(call.key)
      [] call.fn = "getNetworkPassphrase" -> getNetworkPassphrase(call.key)
      [] call.fn = "getFriendbotUrl" -> getFriendbotUrl(call.identifier, call.key)
      [] call.fn = "getExplorerUrl" ->
            getExplorerUrl(call.identifier, call.key, call.type)

ConfigIdle ==
    /\ configCall = [fn |-> "none", key |-> NoArgument, identifier |-> NoArgument,
                     type |-> NoArgument]
    /\ configResult = <<>>

\* the call is evaluated
EvaluateConfig ==
    /\ configCall.fn # "none"
    /\ configResult = <<>>
    /\ configResult' = <<ConfigValue(configCall)>>
    /\ UNCHANGED <<configCall, varsAmount, varsDeploy, varsWallet, varsModal>>

NextConfig == EvaluateConfig

(***************************************************************************)
(* DeployModal: the state of the component before it is first opened.      *)
(***************************************************************************)
\* type DeployStep
DeploySteps == {"connect", "configure", "deploying", "success", "error"}

\* the two modules of the repository that export deploySorobanContract
Deployers == {"placeholder", "pipeline"}

\* the useState initial values, lines 78-88, and no call made yet
ModalIdle ==
    /\ isOpen = FALSE
    /\ step = "connect"
    /\ selectedNetwork = "testnet"
    /\ loading = FALSE
    /\ modalError = Null
    /\ summary = <<>>
    /\ deployerModule = "placeholder"
    /\ deployRuns = <<>>
    /\ deployedContracts = <<>>

(***************************************************************************)
(* useWallet: the session state, the probe effect, and refresh, connect,   *)
(* disconnect and switchNetwork, each an async call whose actions are the  *)
(* code between two awaits.                                                *)
(***************************************************************************)
defaultNetwork == "testnet"
Accounts == {"GA", "GB"}

\* let checksRemaining = 40
ProbeChecks == 40

\* setInterval(..., 500)
ProbeIntervalMs == 500

\* how many calls the component makes into the hook in one behaviour
MaxCalls == 2

NotDetectedMessage ==
    "Freighter extension not detected. Please install it from freighter.app"

\* what requestAccess may resolve to, or the message it rejects with
AccessResults ==
    {[address |-> a, error |-> "", threw |-> ""] : a \in Accounts}
    \cup {[address |-> "", error |-> "User declined access", threw |-> ""],
          [address |-> "", error |-> "", threw |-> ""],
          [address |-> "", error |-> "", threw |-> "Extension context invalidated"]}

IdleRefresh == [pc |-> "idle", address |-> "", outcome |-> "none"]
\* value is what the call returned, "" while it has returned nothing
IdleCall == [pc |-> "idle", target |-> defaultNetwork, outcome |-> "none",
             value |-> ""]

\* String.prototype.toUpperCase, on the names an extension reports
toUpperCase(name) ==
    CASE name = "public" -> "PUBLIC"
      [] name = "testnet" -> "TESTNET"
      [] OTHER -> name

\* mutant: the two outcomes are exchanged
mapNetworkKey_swapped(name) ==
    LET value == toUpperCase(name)
    IN  IF value = "PUBLIC" \/ value = "MAINNET" THEN "testnet" ELSE "mainnet"

\* mapNetworkKey
mapNetworkKey(name) ==
    LET value == toUpperCase(name)
    IN  IF value = "PUBLIC" \/ value = "MAINNET" THEN "mainnet" ELSE "testnet"

\* buildNetworkDetails, lines 27-35
buildNetworkDetails(target) ==
    LET config == Deref(getNetworkConfig(target))
    IN  [network |-> IF target = "mainnet" THEN "PUBLIC" ELSE "TESTNET",
         networkPassphrase |-> config.networkPassphrase,
         networkUrl |-> config.horizonUrl,
         rpcUrl |-> config.rpcUrl]

\* !allowedResult: isAllowed resolves to an object { isAllowed }, never falsy
NotAllowed(allowedResult) == FALSE

\* a result only a present extension can give: the request was answered
\* without an error
Granted(r) == r.threw = "" /\ r.error = ""

\* mutant: a result without an address is not looked at
AccessRefused_onlyError(r) == r.error # ""

\* result.error || !result.address
AccessRefused(r) == r.error # "" \/ r.address = ""

WalletIdle ==
    /\ walletAddress = Null
    /\ network = defaultNetwork
    /\ chainId = <<>>
    /\ server = Null
    /\ isConnecting = FALSE
    /\ error = Null
    /\ isFreighterInstalled = FALSE
    /\ probe = [started |-> FALSE, timer |-> FALSE, checksRemaining |-> ProbeChecks,
                gaveUp |-> 0, refreshes |-> 0, at |-> 0,
                unmounted |-> FALSE]
    /\ extensionNetwork = "TESTNET"
    /\ refreshCall = IdleRefresh
    /\ connectCall = IdleCall
    /\ disconnectCall = IdleCall
    /\ switchCall = IdleCall
    /\ callsMade = 0
    /\ extensionCalls = {}

\* the page before the extension has injected window.freighterApi, or after
InitWallet ==
    /\ WalletIdle
    /\ freighterApi \in BOOLEAN
    /\ DeployIdle
    /\ AmountIdle
    /\ ConfigIdle
    /\ ModalIdle

\* by calls the extension API's function fn with the arguments args
ExtensionCalled(by, fn, args) ==
    extensionCalls' = extensionCalls \cup {[by |-> by, fn |-> fn, args |-> args]}

\* isConnected: !!walletAddress, line 264
isConnected == walletAddress # Null

\* mutant: the chain id is taken from the network the session had
UpdateNetworkState_staleConfig(target) ==
    /\ network' = target
    /\ chainId' = <<Deref(getNetworkConfig(network)).chainId>>
    /\ server' = getSorobanServer(target).value[1]

\* updateNetworkState(target)
UpdateNetworkState(target) ==
    /\ network' = target
    /\ chainId' = <<Deref(getNetworkConfig(target)).chainId>>
    /\ server' = getSorobanServer(target).value[1]

\* refreshConnection, lines 66-75: what follows setIsFreighterInstalled
RefreshFrom64 ==
    /\ IF ~freighterApi
       THEN /\ walletAddress' = Null
            /\ server' = Null
            /\ chainId' = <<>>
            /\ UNCHANGED <<refreshCall, extensionCalls>>
       ELSE /\ refreshCall' = [IdleRefresh EXCEPT !.pc = "isConnected"]
            /\ ExtensionCalled("refresh", "isConnected", <<>>)
            /\ UNCHANGED <<walletAddress, server, chainId>>

\* refreshConnection, lines 54-75
RefreshBegin ==
    /\ isFreighterInstalled' = freighterApi
    /\ RefreshFrom64

\* the component, once mounted, calls one of the functions the hook returned
Called ==
    /\ probe.started
    /\ ~probe.unmounted
    /\ callsMade < MaxCalls
    /\ callsMade' = callsMade + 1

\* the extension injects itself into the page
ExtensionInjected ==
    /\ ~freighterApi
    /\ freighterApi' = TRUE
    /\ UNCHANGED <<walletAddress, network, chainId, server, isConnecting, error,
                   isFreighterInstalled, probe, refreshCall, connectCall,
                   disconnectCall, switchCall>>
    /\ UNCHANGED <<callsMade, extensionCalls, extensionNetwork, varsAmount, varsDeploy, varsConfig, varsModal>>

\* the networks a user can select in the extension
ExtensionNetworks == {"TESTNET", "PUBLIC"}

\* what getNetwork may resolve to while the extension is on the network name:
\* the name, in either case for PUBLIC, or no name; or the call rejects
NetworkAnswers(name) ==
    {name, "", "threw"} \cup (IF name = "PUBLIC" THEN {"public"} ELSE {})

\* the user selects another network inside the extension; the mount effect
\* (lines 111-169) has attached no handler to the extension, so no code of
\* the hook runs
NetworkChangedInExtension(name) ==
    /\ freighterApi
    /\ probe.started
    /\ name # extensionNetwork
    /\ extensionNetwork' = name
    /\ UNCHANGED <<walletAddress, network, chainId, server, isConnecting, error,
                   isFreighterInstalled, freighterApi, probe, refreshCall,
                   connectCall, disconnectCall, switchCall, callsMade,
                   extensionCalls>>
    /\ UNCHANGED <<varsAmount, varsDeploy, varsConfig, varsModal>>

\* the mount effect, lines 111-162
ProbeAtMount ==
    /\ ~probe.started
    /\ IF freighterApi
       THEN /\ RefreshBegin
            /\ probe' = [probe EXCEPT !.started = TRUE, !.refreshes = @ + 1]
       ELSE /\ probe' = [probe EXCEPT !.started = TRUE, !.timer = TRUE,
                                      !.at = ProbeIntervalMs]
            /\ UNCHANGED <<walletAddress, chainId, server, isFreighterInstalled,
                           refreshCall, extensionCalls>>
    /\ UNCHANGED <<network, isConnecting, error, freighterApi, connectCall,
                   disconnectCall, switchCall>>
    /\ UNCHANGED <<callsMade, extensionNetwork, varsAmount, varsDeploy, varsConfig, varsModal>>

\* mutant: the interval is not cleared when the extension is found
IntervalKept_untilExhausted(found, remaining) == remaining > 0

\* mutant: the interval is not cleared when the attempts are used up
IntervalKept_untilFound(found, remaining) == ~found

\* found || checksRemaining <= 0 clears the interval
IntervalKept(found, remaining) == ~(found \/ remaining <= 0)

\* mutant: the attempts being used up is enough, found or not
GaveUp_whenExhausted(found, remaining) == remaining <= 0

\* !found && checksRemaining <= 0
GaveUp(found, remaining) == ~found /\ remaining <= 0

\* the interval callback, lines 147-161; checksRemaining lives in the effect's
\* closure and is unreachable once the interval is cleared by a find, so it is
\* left at 0; gaveUp counts the calls of setIsFreighterInstalled(false) at 154,
\* which comes after the calls of lines 132 and 64; refreshes counts the calls
\* of refreshConnection at 131; at is the time since mount, in ms, at which
\* the live interval fires next, 0 when no interval is live
ProbeTick ==
    /\ probe.timer
    /\ LET remaining == probe.checksRemaining - 1
           found == freighterApi
       IN  /\ IF found
              THEN /\ RefreshFrom64
                   /\ isFreighterInstalled' = ~GaveUp(found, remaining)
              ELSE /\ isFreighterInstalled' =
                         IF GaveUp(found, remaining) THEN FALSE
                         ELSE isFreighterInstalled
                   /\ UNCHANGED <<walletAddress, chainId, server, refreshCall,
                                  extensionCalls>>
           /\ probe' = [probe EXCEPT
                           !.timer = IntervalKept(found, remaining),
                           !.checksRemaining =
                               IF found /\ ~IntervalKept(found, remaining)
                               THEN 0 ELSE remaining,
                           !.gaveUp = IF GaveUp(found, remaining)
                                      THEN @ + 1 ELSE @,
                           !.refreshes = IF found THEN @ + 1 ELSE @,
                           !.at = IF IntervalKept(found, remaining)
                                  THEN @ + ProbeIntervalMs ELSE 0]
    /\ UNCHANGED <<network, isConnecting, error, freighterApi, connectCall,
                   disconnectCall, switchCall>>
    /\ UNCHANGED <<callsMade, extensionNetwork, varsAmount, varsDeploy, varsConfig, varsModal>>

\* mutant: the cleanup leaves the interval as it is
TimerAfterCleanup_kept == probe.timer

\* clearInterval(checkInterval), line 166
TimerAfterCleanup == FALSE

\* the effect's cleanup, lines 164-168, run when the component unmounts
Unmount ==
    /\ probe.started
    /\ ~probe.unmounted
    /\ probe' = [probe EXCEPT !.timer = TimerAfterCleanup,
                              !.at = IF TimerAfterCleanup THEN @ ELSE 0,
                              !.unmounted = TRUE]
    /\ UNCHANGED <<walletAddress, network, chainId, server, isConnecting, error,
                   isFreighterInstalled, freighterApi, refreshCall, connectCall,
                   disconnectCall, switchCall>>
    /\ UNCHANGED <<callsMade, extensionCalls, extensionNetwork, varsAmount, varsDeploy, varsConfig, varsModal>>

\* refresh() called by the component
Refresh ==
    /\ Called
    /\ refreshCall.pc = "idle"
    /\ ~(probe.timer /\ freighterApi)
    /\ RefreshBegin
    /\ UNCHANGED <<network, isConnecting, error, freighterApi, probe, connectCall,
                   disconnectCall, switchCall>>
    /\ UNCHANGED <<extensionNetwork, varsAmount, varsDeploy, varsConfig, varsModal>>

\* refreshConnection returns
RefreshReturned == [IdleRefresh EXCEPT !.outcome = "returned"]

\* mutant: the exception is not caught, and the address is left as it was
RefreshCaught_rethrown ==
    /\ UNCHANGED walletAddress
    /\ refreshCall' = [IdleRefresh EXCEPT !.outcome = "threw"]

\* the catch at lines 105-108, after which the function returns
RefreshCaught ==
    /\ walletAddress' = Null
    /\ refreshCall' = RefreshReturned

\* refreshConnection, lines 75-83 and the catch at 105-108
RefreshIsConnectedSettled(outcome) ==
    /\ refreshCall.pc = "isConnected"
    /\ IF outcome = "threw"
       THEN /\ RefreshCaught
            /\ UNCHANGED extensionCalls
       ELSE IF outcome = "connected"
       THEN /\ refreshCall' = [refreshCall EXCEPT !.pc = "isAllowed"]
            /\ ExtensionCalled("refresh", "isAllowed", <<>>)
            /\ UNCHANGED walletAddress
       ELSE /\ walletAddress' = Null
            /\ refreshCall' = RefreshReturned
            /\ UNCHANGED extensionCalls
    /\ UNCHANGED <<network, chainId, server, isConnecting, error,
                   isFreighterInstalled, freighterApi, probe, connectCall,
                   disconnectCall, switchCall>>
    /\ UNCHANGED <<callsMade, extensionNetwork, varsAmount, varsDeploy, varsConfig, varsModal>>

\* refreshConnection, lines 83-91 and the catch
RefreshIsAllowedSettled(outcome) ==
    /\ refreshCall.pc = "isAllowed"
    /\ IF outcome = "threw"
       THEN /\ RefreshCaught
            /\ UNCHANGED extensionCalls
       ELSE IF NotAllowed(outcome)
       THEN /\ walletAddress' = Null
            /\ refreshCall' = RefreshReturned
            /\ UNCHANGED extensionCalls
       ELSE /\ refreshCall' = [refreshCall EXCEPT !.pc = "getAddress"]
            /\ ExtensionCalled("refresh", "getAddress", <<>>)
            /\ UNCHANGED walletAddress
    /\ UNCHANGED <<network, chainId, server, isConnecting, error,
                   isFreighterInstalled, freighterApi, probe, connectCall,
                   disconnectCall, switchCall>>
    /\ UNCHANGED <<callsMade, extensionNetwork, varsAmount, varsDeploy, varsConfig, varsModal>>

\* refreshConnection, lines 91-94 and the catch
RefreshGetAddressSettled(outcome) ==
    /\ refreshCall.pc = "getAddress"
    /\ IF outcome = "threw"
       THEN /\ RefreshCaught
            /\ UNCHANGED extensionCalls
       ELSE /\ refreshCall' = [refreshCall EXCEPT !.pc = "getNetwork",
                                                  !.address = outcome]
            /\ ExtensionCalled("refresh", "getNetwork", <<>>)
            /\ UNCHANGED walletAddress
    /\ UNCHANGED <<network, chainId, server, isConnecting, error,
                   isFreighterInstalled, freighterApi, probe, connectCall,
                   disconnectCall, switchCall>>
    /\ UNCHANGED <<callsMade, extensionNetwork, varsAmount, varsDeploy, varsConfig, varsModal>>

\* refreshConnection, lines 94-104 and the catch
RefreshGetNetworkSettled(outcome) ==
    /\ refreshCall.pc = "getNetwork"
    /\ outcome \in NetworkAnswers(extensionNetwork)
    /\ IF outcome = "threw"
       THEN /\ RefreshCaught
            /\ UNCHANGED <<network, chainId, server>>
       ELSE /\ refreshCall' = RefreshReturned
            /\ walletAddress' = IF refreshCall.address # ""
                                THEN refreshCall.address ELSE Null
            /\ UpdateNetworkState(IF outcome # "" THEN mapNetworkKey(outcome)
                                  ELSE defaultNetwork)
    /\ UNCHANGED <<isConnecting, error, isFreighterInstalled, freighterApi, probe,
                   connectCall, disconnectCall, switchCall, extensionCalls>>
    /\ UNCHANGED <<callsMade, extensionNetwork, varsAmount, varsDeploy, varsConfig, varsModal>>

\* connect(targetNetwork), lines 173-193, and 209-215 when the extension is absent
Connect(targetNetwork) ==
    /\ Called
    /\ connectCall.pc = "idle"
    /\ isFreighterInstalled' = freighterApi
    /\ IF ~freighterApi
       THEN /\ error' = NotDetectedMessage
            /\ isConnecting' = FALSE
            /\ connectCall' = [IdleCall EXCEPT !.outcome = "threw"]
            /\ UNCHANGED extensionCalls
       ELSE /\ error' = Null
            /\ isConnecting' = TRUE
            /\ ExtensionCalled("connect", "requestAccess", <<>>)
            /\ connectCall' = [IdleCall EXCEPT !.pc = "requestAccess",
                                               !.target = targetNetwork]
    /\ UNCHANGED <<walletAddress, network, chainId, server, freighterApi, probe,
                   refreshCall, disconnectCall, switchCall>>
    /\ UNCHANGED <<extensionNetwork, varsAmount, varsDeploy, varsConfig>>

\* mutant: an account the session already has is kept
publicKey_kept(r) == IF walletAddress # Null THEN walletAddress ELSE r.address

\* const publicKey = result.address
publicKey(r) == r.address

\* mutant: the flag is left as the call found it
ConnectingAfter_kept == isConnecting

\* finally { setIsConnecting(false) }
ConnectingAfter == FALSE

\* connect, lines 193-215
ConnectAccessSettled(r) ==
    /\ connectCall.pc = "requestAccess"
    /\ isConnecting' = ConnectingAfter
    /\ IF r.threw # ""
       THEN /\ error' = r.threw
            /\ connectCall' = [IdleCall EXCEPT !.outcome = "threw"]
            /\ UNCHANGED <<walletAddress, network, chainId, server,
                           isFreighterInstalled>>
       ELSE IF AccessRefused(r)
       THEN /\ error' = IF r.error # "" THEN r.error
                        ELSE "Freighter access was not granted"
            /\ connectCall' = [IdleCall EXCEPT !.outcome = "threw"]
            /\ UNCHANGED <<walletAddress, network, chainId, server,
                           isFreighterInstalled>>
       ELSE /\ walletAddress' = publicKey(r)
            /\ UpdateNetworkState(connectCall.target)
            /\ isFreighterInstalled' = TRUE
            /\ connectCall' = [IdleCall EXCEPT !.outcome = "returned",
                                               !.value = publicKey(r)]
            /\ UNCHANGED error
    /\ UNCHANGED <<freighterApi, probe, refreshCall, disconnectCall, switchCall,
                   extensionCalls>>
    /\ UNCHANGED <<callsMade, extensionNetwork, varsAmount, varsDeploy, varsConfig>>

\* a call as it is once disconnect has run: if it is in flight, it is one
\* that began before the disconnect (a note for the properties; the program
\* keeps no such record)
Overtaken(call) ==
    IF call.pc = "idle" THEN call ELSE [call EXCEPT !.outcome = "overtaken"]

\* disconnect, lines 221-229: what it does to the session and the extension
DisconnectSession ==
    /\ Called
    /\ disconnectCall.pc = "idle"
    /\ walletAddress' = Null
    /\ chainId' = <<>>
    /\ server' = Null
    /\ error' = Null
    /\ disconnectCall' = [disconnectCall EXCEPT !.pc = "setAllowed",
                                                !.outcome = "none"]
    /\ ExtensionCalled("disconnect", "setAllowed", <<>>)
    /\ UNCHANGED <<network, isConnecting, isFreighterInstalled, freighterApi, probe,
                   switchCall>>
    /\ UNCHANGED <<extensionNetwork, varsAmount, varsDeploy, varsConfig>>

\* disconnect leaves the calls in flight as they are
Disconnect ==
    /\ DisconnectSession
    /\ UNCHANGED <<refreshCall, connectCall>>

\* the same step, with the calls it overtakes noted
DisconnectNoted ==
    /\ DisconnectSession
    /\ refreshCall' = Overtaken(refreshCall)
    /\ connectCall' = Overtaken(connectCall)

\* disconnect, lines 229-233: setAllowed resolves, or rejects and is caught
DisconnectSetAllowedSettled(threw) ==
    /\ disconnectCall.pc = "setAllowed"
    /\ disconnectCall' = [IdleCall EXCEPT !.outcome = "returned"]
    /\ UNCHANGED extensionCalls
    /\ UNCHANGED <<walletAddress, network, chainId, server, isConnecting, error,
                   isFreighterInstalled, freighterApi, probe, refreshCall,
                   connectCall, switchCall>>
    /\ UNCHANGED <<callsMade, extensionNetwork, varsAmount, varsDeploy, varsConfig>>

\* switchNetwork(nextNetwork), lines 236-239
SwitchNetwork(nextNetwork) ==
    /\ Called
    /\ switchCall.pc = "idle"
    /\ switchCall' = [IdleCall EXCEPT !.pc = "requestAccess",
                                      !.target = nextNetwork]
    /\ ExtensionCalled("switchNetwork", "requestAccess", <<>>)
    /\ UNCHANGED <<walletAddress, network, chainId, server, isConnecting, error,
                   isFreighterInstalled, freighterApi, probe, refreshCall,
                   connectCall, disconnectCall>>
    /\ UNCHANGED <<extensionNetwork, varsAmount, varsDeploy, varsConfig>>

\* mutant: only a rejected request counts as a failure
SwitchFailed_onlyThrown(r) == r.threw # ""

\* the request rejected, or if (result.error) throw
SwitchFailed(r) == r.threw # "" \/ r.error # ""

\* switchNetwork, lines 239-249
SwitchAccessSettled(r) ==
    /\ switchCall.pc = "requestAccess"
    /\ Granted(r) => freighterApi
    /\ IF SwitchFailed(r)
       THEN /\ error' = IF r.threw # "" THEN r.threw ELSE r.error
            /\ switchCall' = [IdleCall EXCEPT !.outcome = "false"]
            /\ UNCHANGED <<network, chainId, server>>
       ELSE /\ UpdateNetworkState(switchCall.target)
            /\ switchCall' = [IdleCall EXCEPT !.outcome = "true"]
            /\ UNCHANGED error
    /\ UNCHANGED <<walletAddress, isConnecting, isFreighterInstalled, freighterApi,
                   probe, refreshCall, connectCall, disconnectCall, extensionCalls>>
    /\ UNCHANGED <<callsMade, extensionNetwork, varsAmount, varsDeploy, varsConfig>>

\* every step of the hook but the start of a disconnect
NextWalletButDisconnect ==
    \/ ExtensionInjected
    \/ ProbeAtMount
    \/ ProbeTick
    \/ Refresh
    \/ \E o \in {"connected", "not-connected", "threw"} :
          RefreshIsConnectedSettled(o)
    \/ \E o \in {"allowed", "not-allowed", "threw"} :
          RefreshIsAllowedSettled(o)
    \/ \E o \in Accounts \cup {"", "threw"} :
          RefreshGetAddressSettled(o)
    \/ \E o \in {"TESTNET", "PUBLIC", "public", "", "threw"} :
          RefreshGetNetworkSettled(o)
    \/ \E t \in TargetNetworks : Connect(t) /\ UNCHANGED varsModal
    \/ \E r \in AccessResults : ConnectAccessSettled(r) /\ UNCHANGED varsModal
    \/ \E threw \in BOOLEAN :
          DisconnectSetAllowedSettled(threw) /\ UNCHANGED varsModal
    \/ \E t \in TargetNetworks : SwitchNetwork(t) /\ UNCHANGED varsModal
    \/ \E r \in AccessResults : SwitchAccessSettled(r) /\ UNCHANGED varsModal
    \/ \E name \in ExtensionNetworks : NetworkChangedInExtension(name)

NextWallet ==
    \/ NextWalletButDisconnect
    \/ Disconnect /\ UNCHANGED varsModal

SpecWallet == InitWallet /\ [][NextWallet]_vars

\* the hook with the calls that a disconnect overtakes noted
NextOvertaken ==
    \/ NextWalletButDisconnect
    \/ DisconnectNoted /\ UNCHANGED varsModal

SpecOvertaken == InitWallet /\ [][NextOvertaken]_vars

\* the hook in a component that may unmount
NextTeardown ==
    \/ NextWallet
    \/ Unmount

SpecTeardown == InitWallet /\ [][NextTeardown]_vars

\* the effect runs after the first render and the interval timer keeps firing
FairSpecWallet ==
    SpecWallet /\ WF_vars(ProbeAtMount) /\ WF_vars(ProbeTick)

\* the pipeline, with the parser harness idle
InitDeploy ==
    /\ DeployIdle
    /\ AmountIdle
    /\ WalletIdle
    /\ freighterApi = FALSE
    /\ ConfigIdle
    /\ ModalIdle

SpecDeploy == InitDeploy /\ [][NextDeploy]_vars

\* every awaited call settles and every timer fires
FairSpecDeploy == SpecDeploy /\ WF_vars(NextDeploy)

(***************************************************************************)
(* The parser on its own.                                                  *)
(***************************************************************************)
InitAmount ==
    /\ amount \in AmountInputs
    /\ decimals \in Precisions
    /\ parsed = <<>>
    /\ DeployIdle
    /\ WalletIdle
    /\ freighterApi = FALSE
    /\ ConfigIdle
    /\ ModalIdle

SpecAmount == InitAmount /\ [][NextAmount]_vars

\* the network-config functions on their own: any one call, evaluated
InitConfig ==
    /\ configCall \in ConfigCalls
    /\ configResult = <<>>
    /\ AmountIdle
    /\ DeployIdle
    /\ WalletIdle
    /\ freighterApi = FALSE
    /\ ModalIdle

SpecConfig == InitConfig /\ [][NextConfig]_vars

(***************************************************************************)
(* DeployModal (components/deploy-modal): the handlers of the component,   *)
(* each an action per await, together with the two effects that follow a   *)
(* render.  The hook instance is the modal's own, so connect, disconnect   *)
(* and switchNetwork are called by the modal's handlers only.  A call of   *)
(* deploySorobanContract is seen from the modal: it is made, and later it  *)
(* returns a result or throws.                                             *)
(***************************************************************************)
\* how many times the modal calls connect, disconnect or switchNetwork in
\* one behaviour
MaxModalCalls == 2

\* NETWORK_OPTIONS
NetworkOptions == {"testnet", "mainnet"}

NoWalletMessage == "Connect your Freighter wallet before deploying"
NoBlocksMessage == "Add at least one contract block before deploying"

\* what randomBase32 may draw
RandomDraws == {"AAAA", "7777"}

\* what requestAccess answers the modal's hook: the account, or a refusal
ModalAccessResults ==
    {r \in AccessResults : r.threw = "" /\ (r.address = "GA" \/ r.error # "")}

\* mutant: the placeholder reports a real deployment
PlaceholderSimulated_real == "false"

\* simulated: true
PlaceholderSimulated == "true"

\* the placeholder's return value
PlaceholderResult(c, t) ==
    [contractId |-> <<"CD", c>>, transactionId |-> <<"SIM-", t>>,
     explorerUrl |-> Null, simulated |-> PlaceholderSimulated]

\* the pipeline's return value: the mint's hash if it minted, else the creation's
PipelineResult(net, minted) ==
    [contractId |-> <<"C", "address">>,
     transactionId |-> <<"hash", IF minted THEN "mint" ELSE "create">>,
     explorerUrl |-> IF net = "mainnet"
                     THEN "https://stellar.expert/explorer/public/tx/hash"
                     ELSE "https://stellar.expert/explorer/testnet/tx/hash",
     simulated |-> "undefined"]

\* the message of the error the pipeline throws in a stage
PipelineError(st) ==
    CASE st = "upload" -> "upload failed"
      [] st = "create" -> "create failed"
      [] st = "init" -> "init failed"
      [] st = "mint" -> "mint failed"

\* the effect on [isOpen, walletAddress], lines 92-106
StepEffect(open, addr, current) ==
    IF ~open THEN (IF addr # Null THEN "configure" ELSE "connect")
    ELSE IF addr # Null
         THEN (IF current \in {"success", "error"} THEN current ELSE "configure")
         ELSE "connect"

\* the render that follows a handler which set step, error, summary and
\* selectedNetwork to s, e, sm and sel, and the effects whose dependencies changed
Rendered(s, e, sm, sel) ==
    LET ran == isOpen' # isOpen \/ walletAddress' # walletAddress
    IN  /\ step' = IF ran THEN StepEffect(isOpen', walletAddress', s) ELSE s
        /\ modalError' = IF ran /\ ~isOpen' THEN Null ELSE e
        /\ summary' = IF ran /\ ~isOpen' THEN <<>> ELSE sm
        /\ selectedNetwork' = IF network' # network THEN network' ELSE sel

\* the parent shows the modal
OpenModal ==
    /\ ~isOpen
    /\ isOpen' = TRUE
    /\ UNCHANGED <<varsWallet, varsAmount, varsDeploy, varsConfig>>
    /\ UNCHANGED <<loading, deployerModule, deployRuns, deployedContracts>>
    /\ Rendered(step, modalError, summary, selectedNetwork)

\* onClose
CloseModal ==
    /\ isOpen
    /\ isOpen' = FALSE
    /\ UNCHANGED <<varsWallet, varsAmount, varsDeploy, varsConfig>>
    /\ UNCHANGED <<loading, deployerModule, deployRuns, deployedContracts>>
    /\ Rendered(step, modalError, summary, selectedNetwork)

\* handleConnectWallet up to await connect(selectedNetwork), or through its
\* catch when connect throws before its own await
handleConnectWallet ==
    /\ isOpen
    /\ step = "connect"
    /\ ~(loading \/ isConnecting)
    /\ isFreighterInstalled
    /\ callsMade < MaxModalCalls
    /\ Connect(selectedNetwork)
    /\ UNCHANGED <<isOpen, deployerModule, deployRuns, deployedContracts>>
    /\ IF connectCall'.pc = "idle"
       THEN /\ loading' = FALSE
            /\ Rendered("error", error', summary, selectedNetwork)
       ELSE /\ loading' = TRUE
            /\ Rendered(step, Null, summary, selectedNetwork)

\* handleConnectWallet, lines 139-146
ConnectWalletSettled(r) ==
    /\ ConnectAccessSettled(r)
    /\ UNCHANGED <<isOpen, deployerModule, deployRuns, deployedContracts>>
    /\ loading' = FALSE
    /\ IF connectCall'.outcome = "returned"
       THEN Rendered("configure", modalError, summary, selectedNetwork)
       ELSE Rendered("error", error', summary, selectedNetwork)

\* handleDisconnectWallet up to await disconnect()
handleDisconnectWallet ==
    /\ isOpen
    /\ step = "configure"
    /\ callsMade < MaxModalCalls
    /\ Disconnect
    /\ UNCHANGED <<isOpen, deployerModule, deployRuns, deployedContracts>>
    /\ loading' = TRUE
    /\ Rendered(step, modalError, summary, selectedNetwork)

\* handleDisconnectWallet, lines 153-159
DisconnectWalletSettled(threw) ==
    /\ DisconnectSetAllowedSettled(threw)
    /\ UNCHANGED <<isOpen, deployerModule, deployRuns, deployedContracts>>
    /\ loading' = FALSE
    /\ Rendered("connect", modalError, summary, selectedNetwork)

\* the network select's onChange, and handleSwitchNetwork up to await
\* switchNetwork(target)
selectNetwork(target) ==
    /\ isOpen
    /\ step = "configure"
    /\ target # selectedNetwork
    /\ UNCHANGED <<isOpen, deployerModule, deployRuns, deployedContracts>>
    /\ IF network # target
       THEN /\ callsMade < MaxModalCalls
            /\ SwitchNetwork(target)
            /\ loading' = TRUE
            /\ Rendered(step, Null, summary, target)
       ELSE /\ UNCHANGED <<varsWallet, varsAmount, varsDeploy, varsConfig, loading>>
            /\ Rendered(step, modalError, summary, target)

\* handleSwitchNetwork, lines 166-175
SwitchNetworkSettled(r) ==
    /\ SwitchAccessSettled(r)
    /\ UNCHANGED <<isOpen, deployerModule, deployRuns, deployedContracts>>
    /\ loading' = FALSE
    /\ Rendered(step, modalError, summary,
                IF switchCall'.outcome = "true" THEN switchCall.target
                ELSE selectedNetwork)

\* the call's argument, and where the call is
NewRun ==
    [network |-> selectedNetwork, walletAddress |-> walletAddress, pc |-> "deploy",
     onChain |-> FALSE]

\* a call that has settled, and whether it has left confirmed transactions
\* on the network; its arguments are no longer referred to
FinishedRun(how, onChain) ==
    [network |-> defaultNetwork, walletAddress |-> Null, pc |-> how,
     onChain |-> onChain]

\* handleDeploy up to await deploySorobanContract(...), from the Deploy
\* contract button or the Retry deployment button
handleDeploy(hasBlocks) ==
    /\ isOpen
    /\ step \in {"configure", "error"}
    /\ ~loading
    /\ UNCHANGED <<varsWallet, varsAmount, varsDeploy, varsConfig>>
    /\ UNCHANGED <<isOpen, deployerModule, deployedContracts>>
    /\ IF walletAddress = Null
       THEN /\ UNCHANGED <<loading, deployRuns>>
            /\ Rendered("error", NoWalletMessage, summary, selectedNetwork)
       ELSE IF ~hasBlocks
       THEN /\ UNCHANGED <<loading, deployRuns>>
            /\ Rendered("error", NoBlocksMessage, summary, selectedNetwork)
       ELSE /\ Len(deployRuns) < MaxRuns
            /\ deployRuns' = Append(deployRuns, NewRun)
            /\ loading' = TRUE
            /\ Rendered("deploying", Null, summary, selectedNetwork)

\* setSummary's argument, lines 290-297
SummaryOf(run, res) ==
    [contractId |-> res.contractId, transactionId |-> res.transactionId,
     network |-> run.network, explorerUrl |-> res.explorerUrl,
     simulated |-> res.simulated]

\* addDeployedContract's argument, lines 238-255, without the fields that
\* repeat the summary's
DeployedContractOf(run, res) ==
    [network |-> run.network, deployer |-> run.walletAddress,
     explorerUrl |-> IF res.explorerUrl = Null THEN "" ELSE res.explorerUrl]

\* handleDeploy, lines 233-299 and 304-306, after call k returned res.  What
\* saveDeployedContract and syncDeployedContracts answer changes nothing:
\* their failure is caught.
DeployReturned(k, res, onChain) ==
    /\ deployedContracts' = Append(deployedContracts, DeployedContractOf(deployRuns[k], res))
    /\ UNCHANGED <<varsWallet, varsAmount, varsDeploy, varsConfig>>
    /\ UNCHANGED <<isOpen, deployerModule>>
    /\ deployRuns' = [deployRuns EXCEPT ![k] = FinishedRun("resolved", onChain)]
    /\ loading' = FALSE
    /\ Rendered("success", modalError, <<SummaryOf(deployRuns[k], res)>>,
                selectedNetwork)

\* the placeholder's timer fires and it returns
PlaceholderTimerFired(k, c, t) ==
    /\ deployerModule = "placeholder"
    /\ k \in DOMAIN deployRuns
    /\ deployRuns[k].pc = "deploy"
    /\ DeployReturned(k, PlaceholderResult(c, t), FALSE)

\* the pipeline returns, all its transactions confirmed
PipelineReturned(k, minted) ==
    /\ deployerModule = "pipeline"
    /\ k \in DOMAIN deployRuns
    /\ deployRuns[k].pc = "deploy"
    /\ DeployReturned(k, PipelineResult(deployRuns[k].network, minted), TRUE)

\* mutant: the failure leaves the modal on the configure step
StepAfterFailure_configure == "configure"

\* setStep("error"), line 303
StepAfterFailure == "error"

\* whether a call that throws in stage st has had a transaction confirmed:
\* those of the stages before st
LeftOnChain(st) == StageIndex(st) > 1

\* the pipeline throws in stage st; handleDeploy, lines 300-306
PipelineAborted(k, st) ==
    /\ deployerModule = "pipeline"
    /\ k \in DOMAIN deployRuns
    /\ deployRuns[k].pc = "deploy"
    /\ deployRuns' = [deployRuns EXCEPT ![k] = FinishedRun("rejected", LeftOnChain(st))]
    /\ loading' = FALSE
    /\ UNCHANGED <<varsWallet, varsAmount, varsDeploy, varsConfig>>
    /\ UNCHANGED <<isOpen, deployerModule, deployedContracts>>
    /\ Rendered(StepAfterFailure, PipelineError(st), summary, selectedNetwork)

\* the Back button of the error step
Back ==
    /\ isOpen
    /\ step = "error"
    /\ UNCHANGED <<varsWallet, varsAmount, varsDeploy, varsConfig>>
    /\ UNCHANGED <<isOpen, loading, deployerModule, deployRuns, deployedContracts>>
    /\ Rendered(IF walletAddress # Null THEN "configure" ELSE "connect", Null,
                summary, selectedNetwork)

\* the Deploy another contract button of the success step
DeployAnother ==
    /\ isOpen
    /\ step = "success"
    /\ summary # <<>>
    /\ UNCHANGED <<varsWallet, varsAmount, varsDeploy, varsConfig>>
    /\ UNCHANGED <<isOpen, loading, deployerModule, deployRuns, deployedContracts>>
    /\ Rendered("configure", modalError, summary, selectedNetwork)

NextModal ==
    \/ OpenModal
    \/ CloseModal
    \/ handleConnectWallet
    \/ \E r \in ModalAccessResults : ConnectWalletSettled(r)
    \/ handleDisconnectWallet
    \/ \E threw \in BOOLEAN : DisconnectWalletSettled(threw)
    \/ \E target \in NetworkOptions : selectNetwork(target)
    \/ \E r \in ModalAccessResults : SwitchNetworkSettled(r)
    \/ \E hasBlocks \in BOOLEAN : handleDeploy(hasBlocks)
    \/ \E k \in 1..MaxRuns, c \in RandomDraws, t \in RandomDraws :
          PlaceholderTimerFired(k, c, t)
    \/ \E k \in 1..MaxRuns, minted \in BOOLEAN : PipelineReturned(k, minted)
    \/ \E k \in 1..MaxRuns, st \in StageSet : PipelineAborted(k, st)
    \/ Back
    \/ DeployAnother

\* the hook after its probe has found the extension and the refresh it
\* started has returned at line 80: no account is connected
ProbedNotConnected ==
    /\ walletAddress = Null
    /\ chainId = <<>>
    /\ server = Null
    /\ extensionCalls = {[fn |-> "isConnected", by |-> "refresh", args |-> <<>>]}

\* the hook after its probe has found the extension and the refresh it
\* started has run to line 104: the account GA is connected on the testnet
ProbedConnected ==
    /\ walletAddress = "GA"
    /\ chainId = <<0>>
    /\ server = "https://soroban-testnet.stellar.org"
    /\ extensionCalls =
           {[fn |-> f, by |-> "refresh", args |-> <<>>] :
               f \in {"isConnected", "isAllowed", "getAddress", "getNetwork"}}

\* the modal mounted with the page and closed, its hook's probe and refresh
\* done, and the step its first effect has set
InitModal ==
    /\ isOpen = FALSE
    /\ ProbedNotConnected \/ ProbedConnected
    /\ step = StepEffect(FALSE, walletAddress, "connect")
    /\ selectedNetwork = "testnet"
    /\ loading = FALSE
    /\ modalError = Null
    /\ summary = <<>>
    /\ deployerModule \in Deployers
    /\ deployRuns = <<>>
    /\ deployedContracts = <<>>
    /\ network = defaultNetwork
    /\ isConnecting = FALSE
    /\ error = Null
    /\ isFreighterInstalled = TRUE
    /\ freighterApi = TRUE
    /\ probe = [started |-> TRUE, timer |-> FALSE, checksRemaining |-> ProbeChecks,
                gaveUp |-> 0, refreshes |-> 1, at |-> 0,
                unmounted |-> FALSE]
    /\ extensionNetwork = "TESTNET"
    /\ refreshCall = [IdleRefresh EXCEPT !.outcome = "returned"]
    /\ connectCall = IdleCall
    /\ disconnectCall = IdleCall
    /\ switchCall = IdleCall
    /\ callsMade = 0
    /\ DeployIdle
    /\ AmountIdle
    /\ ConfigIdle

SpecModal == InitModal /\ [][NextModal]_vars

(***************************************************************************)
(* Properties of the deployment pipeline.                                  *)
(***************************************************************************)
PollLimit == TRANSACTION_POLL_TIMEOUT_MS \div TRANSACTION_POLL_INTERVAL_MS

TimedOutMessage == "Timed out waiting for Soroban transaction confirmation"

ValidationMessages ==
    {"Initial supply is required", "Initial supply must be a numeric value",
     "Initial supply supports at most decimals decimal places"}

Started(s) == calls[<<s, "getAccount">>] > 0

Submitted(s) == calls[<<s, "send">>] > 0

LaterStages(s) == {t \in StageSet : StageIndex(t) > StageIndex(s)}

NoCallsIn(S) == \A t \in S : \A k \in CallKinds : calls[<<t, k>>] = 0

ScaledSupply == toBigIntAmount(SupplyOrZero(initialSupply), TOKEN_DECIMALS)

OneMillion == <<"1", "0", "0", "0", "0", "0", "0">>

\* C1: within one run the stages start in the order upload, create, init, mint,
\* a stage issues its first call (the account read) only after the previous
\* stage's transaction was seen with status SUCCESS, and at most one submitted
\* transaction of the run has not been seen with status SUCCESS.
C1_StagesStrictlySequential ==
    /\ \A s \in StageSet :
          (Started(s) /\ StageIndex(s) > 1) =>
              /\ Submitted(Stages[StageIndex(s) - 1])
              /\ txStatus[Stages[StageIndex(s) - 1]] = "SUCCESS"
    /\ Cardinality({s \in StageSet : Submitted(s) /\ txStatus[s] # "SUCCESS"}) <= 1

C1_Witness ==
    /\ stage = "mint"
    /\ pc = "getTransaction"
    /\ polls > 1
    /\ \A s \in {"upload", "create", "init"} : txStatus[s] = "SUCCESS"

\* C2: once the simulator has reported an error for a stage's transaction the
\* run has failed with exactly that message, the stage was simulated once, no
\* signature was requested, nothing was submitted or polled for it, and no
\* later stage has issued any call.
C2_SimulationErrorAborts ==
    \A s \in StageSet :
        simReport[s] \notin {"none", "ok"} =>
            /\ pc = "failed"
            /\ result.status = "threw"
            /\ result.error = simReport[s]
            /\ calls[<<s, "simulate">>] = 1
            /\ calls[<<s, "sign">>] = 0
            /\ calls[<<s, "send">>] = 0
            /\ polls = 0
            /\ NoCallsIn(LaterStages(s))

C2_Witness ==
    /\ simReport["upload"] = "HostError: Error(Budget, ExceededLimit)"
    /\ pc = "failed"
    /\ NoCallsIn({"create", "init", "mint"})

ClaimedInvalid(s) ==
    \/ s = <<>>
    \/ \E i \in 1..Len(s) : ~IsDigit(s[i]) /\ s[i] # "."
    \/ Cardinality(DotsOf(s)) > 1
    \/ Len(SplitFraction(s)) > TOKEN_DECIMALS

\* C6: no run whose initialSupply is empty, holds a character other than
\* digits and one decimal point, or has more than 7 fractional digits completes.
C6_InvalidSupplyNeverDeploys ==
    pc = "done" => ~ClaimedInvalid(initialSupply)

\* C7: when a run fails with a supply validation error it has issued no fetch,
\* no RPC call and no signature request.
C7_ValidationBeforeAnyCall ==
    (pc = "failed" /\ result.error \in ValidationMessages) =>
        \A k \in CallKeys : calls[k] = 0

\* C9: when the supply scales to a positive amount, the mint stage starts only
\* after initialize was confirmed and carries exactly the scaled amount (for
\* "1000000": 1000000 * 10^7), and a completed run submitted the mint
\* transaction, saw it succeed and returns its hash as transactionId.
C9_MintsScaledAmount ==
    /\ Started("mint") =>
          /\ txStatus["init"] = "SUCCESS"
          /\ ScaledSupply.ok
          /\ mintOpAmount = <<ScaledSupply.value>>
    /\ (pc = "done" /\ ScaledSupply.ok /\ ScaledSupply.value # <<>>) =>
          /\ calls[<<"mint", "send">>] = 1
          /\ txStatus["mint"] = "SUCCESS"
          /\ mintOpAmount = <<ScaledSupply.value>>
          /\ result.status = "returned"
          /\ result.transactionId = txHash["mint"]
          /\ result.transactionId # txHash["create"]
    /\ (pc = "done" /\ initialSupply = OneMillion) =>
          mintOpAmount = <<(<<0, 0, 0, 0, 0, 0, 0, 0, 0, 0, 0, 0, 0, 1>>)>>

C9_Witness ==
    /\ pc = "done"
    /\ initialSupply = OneMillion
    /\ result.transactionId = [run |-> runs, n |-> 4]

\* C10: when the supply scales to zero the run never issues a call of the mint
\* stage (a run that did issue one has a positive scaled supply), and a
\* completed run of a zero supply has submitted and seen succeed exactly the
\* upload, instantiate and initialize transactions and returns the
\* instantiation's hash as transactionId.
C10_ZeroSupplySkipsMint ==
    /\ (Started("mint") \/ mintOpAmount # <<>>) => ScaledSupply.value # <<>>
    /\ (pc = "done" /\ ScaledSupply.ok /\ ScaledSupply.value = <<>>) =>
          /\ NoCallsIn({"mint"})
          /\ \A s \in {"upload", "create", "init"} :
                calls[<<s, "send">>] = 1 /\ txStatus[s] = "SUCCESS"
          /\ result.status = "returned"
          /\ result.transactionId = txHash["create"]
          /\ result.transactionId # NoHash

C10_Witness ==
    /\ pc = "done"
    /\ initialSupply = <<"0">>
    /\ result.transactionId = [run |-> runs, n |-> 2]

(***************************************************************************)
(* Properties of toBigIntAmount.                                           *)
(***************************************************************************)
\* the integer quotient and the remainder of a bigint by 10^n
QuotientPow10(v, n) == IF Len(v) <= n THEN <<>> ELSE SubSeq(v, n + 1, Len(v))

RemainderPow10(v, n) == IF Len(v) <= n THEN v ELSE BigNorm(SubSeq(v, 1, n))

Pow10(n) == BigPow(BigOfNat(10), n)

\* C8: for a decimal string w or w.f with at most 7 fractional digits,
\* toBigIntAmount(s, 7) returns v such that q = v div 10^7 and r = v mod 10^7
\* make q + r / 10^7 the number the string denotes, w + f / 10^Len(f)
\* (compared after multiplying both by 10^7 * 10^Len(f)).
C8_ScaleUnscaleRoundTrip ==
    (/\ parsed # <<>>
     /\ decimals = TOKEN_DECIMALS
     /\ NumericPattern(amount)
     /\ Len(SplitFraction(amount)) <= TOKEN_DECIMALS) =>
        /\ parsed[1].ok
        /\ LET v == parsed[1].value
               q == QuotientPow10(v, TOKEN_DECIMALS)
               r == RemainderPow10(v, TOKEN_DECIMALS)
               w == BigFromString(SplitWhole(amount))
               f == BigFromString(SplitFraction(amount))
               n == Len(SplitFraction(amount))
           IN  BigMul(BigAdd(BigMul(q, Pow10(TOKEN_DECIMALS)), r), Pow10(n))
                   = BigMul(BigAdd(BigMul(w, Pow10(n)), f), Pow10(TOKEN_DECIMALS))

C8_Witness ==
    /\ amount = <<"4", "2", ".", "0", "5">>
    /\ decimals = TOKEN_DECIMALS
    /\ parsed = <<Returned(<<0, 0, 0, 0, 0, 5, 0, 2, 4>>)>>

(***************************************************************************)
(* Properties of the wallet session.                                       *)
(***************************************************************************)
\* the step in which a connect call ends by throwing
ConnectFails ==
    /\ connectCall' # connectCall
    /\ connectCall'.pc = "idle"
    /\ connectCall'.outcome = "threw"

\* the step in which a disconnect call returns
DisconnectReturns ==
    /\ disconnectCall.pc = "setAllowed"
    /\ disconnectCall'.pc = "idle"

\* C3: a connect call that ends in failure (extension absent, authorization
\* denied or errored, or no account returned) leaves the address null, whatever
\* wallet operations came before it.
C3_FailedConnectLeavesAddressNull ==
    [][ConnectFails => walletAddress' = Null]_vars

\* C4: a disconnect call ends with the local session cleared (address null,
\* chainId null), from any prior session state and whether or not the revoke
\* call throws, and it returns normally without setting the error.
C4_DisconnectEndsCleared ==
    [][DisconnectReturns => /\ walletAddress' = Null
                            /\ chainId' = <<>>
                            /\ disconnectCall'.outcome = "returned"
                            /\ error' = error]_vars

\* C11: while the extension object is absent the session is disconnected
\* (address null, chainId null); the probe sets isFreighterInstalled to false
\* at most once, and only with all ProbeChecks attempts used and the interval
\* cleared; after that no step changes the probe; and (the effect running
\* and the timer firing) an extension that never appears leads to that one
\* setting of false.
C11_ProbeGivesUpOnce ==
    /\ [](~freighterApi => walletAddress = Null /\ chainId = <<>>)
    /\ [](probe.gaveUp <= 1)
    /\ [](probe.gaveUp = 1 =>
             /\ ~probe.timer
             /\ probe.checksRemaining = 0
             /\ ~isFreighterInstalled \/ freighterApi)
    /\ [][probe.gaveUp = 1 => probe' = probe]_vars
    /\ <>(freighterApi \/ probe.gaveUp = 1)

C11_Witness ==
    /\ ~freighterApi
    /\ probe.gaveUp = 1
    /\ ~isFreighterInstalled
    /\ callsMade = MaxCalls
    /\ walletAddress = Null

\* C12: a switchNetwork call ends by returning true or false, never by
\* throwing; it returns true exactly when the authorization request was
\* answered without error, and then network is the target and chainId the
\* chainId of the target's config; when it returns false, address, network
\* and chainId are what they were before the step.
C12_SwitchNetworkReturnsBoolean ==
    [][\A r \in AccessResults :
          SwitchAccessSettled(r) =>
              /\ switchCall'.pc = "idle"
              /\ switchCall'.outcome = IF Granted(r) THEN "true" ELSE "false"
              /\ Granted(r) =>
                    /\ network' = switchCall.target
                    /\ chainId' = <<Deref(getNetworkConfig(switchCall.target)).chainId>>
              /\ ~Granted(r) =>
                    /\ UNCHANGED <<walletAddress, network, chainId>>
                    /\ error' \in {r.threw, r.error}]_vars

C12_Witness ==
    /\ switchCall = [IdleCall EXCEPT !.outcome = "false"]
    /\ walletAddress = "GA"
    /\ network = "mainnet"
    /\ chainId = <<1>>
    /\ error = "User declined access"

\* the message connect throws and records for a request that rejected, was
\* answered with an error, or was answered without an account
ConnectFailureMessage(r) ==
    IF r.threw # "" THEN r.threw
    ELSE IF r.error # "" THEN r.error
    ELSE "Freighter access was not granted"

\* C13: a connect call made while the extension is absent ends at once by
\* throwing, with error the not-detected message and no call made to the
\* extension; a connect call whose authorization request rejects, is answered
\* with an error, or is answered without an account ends by throwing, with
\* error the message of that failure; in each case isConnecting is false after.
C13_ConnectFailsExplicitly ==
    /\ [][\A t \in TargetNetworks :
             (Connect(t) /\ ~freighterApi) =>
                 /\ connectCall' = [IdleCall EXCEPT !.outcome = "threw"]
                 /\ error' = NotDetectedMessage
                 /\ extensionCalls' = extensionCalls
                 /\ ~isConnecting']_vars
    /\ [][\A r \in AccessResults :
             (ConnectAccessSettled(r) /\ (r.threw # "" \/ r.error # "" \/ r.address = "")) =>
                 /\ connectCall' = [IdleCall EXCEPT !.outcome = "threw"]
                 /\ error' = ConnectFailureMessage(r)
                 /\ error' # Null
                 /\ ~isConnecting']_vars

C13_Witness ==
    /\ connectCall = [IdleCall EXCEPT !.outcome = "threw"]
    /\ error = "Freighter access was not granted"
    /\ freighterApi
    /\ [by |-> "connect", fn |-> "requestAccess", args |-> <<>>] \in extensionCalls

(***************************************************************************)
(* C14: connect(targetNetwork) hands the target network's details to the   *)
(* extension's authorization request: whenever connect issues              *)
(* requestAccess, the request carries the network name of targetNetwork    *)
(* ("TESTNET" for testnet, "PUBLIC" for mainnet) with that network's       *)
(* passphrase and endpoints, that is buildNetworkDetails(targetNetwork).   *)
(***************************************************************************)
C14_ConnectPassesNetworkDetails ==
    [][\A t \in TargetNetworks :
          (Connect(t) /\ freighterApi) =>
              [by |-> "connect", fn |-> "requestAccess",
               args |-> <<buildNetworkDetails(t)>>] \in extensionCalls']_vars

C16_DisconnectRevokesPermission ==
    [][Disconnect =>
          [by |-> "disconnect", fn |-> "setAllowed", args |-> <<"false">>]
              \in extensionCalls']_vars

(***************************************************************************)
(* C17: the lookup for the legacy key "sepolia" returns the identical      *)
(* object as the lookup for "testnet", through getNetworkConfig and        *)
(* through the CELO_NETWORKS table: the same reference, not a copy.        *)
(***************************************************************************)
C17_SepoliaAliasesTestnet ==
    (/\ configResult # <<>>
     /\ configCall.key = "sepolia"
     /\ configCall.fn \in {"getNetworkConfig", "CELO_NETWORKS"}) =>
        /\ configResult[1].kind = "object"
        /\ configResult[1] = getNetworkConfig("testnet")
        /\ configResult[1] = Index(CELO_NETWORKS, "testnet")
        /\ configResult[1] = ConfigValue([configCall EXCEPT !.key = "testnet"])

C17_Witness ==
    /\ configCall.fn = "getNetworkConfig"
    /\ configCall.key = "sepolia"
    /\ configResult = <<JsObject("testnet")>>

(***************************************************************************)
(* C18: the network-config lookup never fails: for every key, an           *)
(* unrecognized or retired one included, getNetworkConfig returns one of   *)
(* the existing entries (testnet's or mainnet's), never an absent value or *)
(* an error.                                                               *)
(***************************************************************************)
C18_LookupNeverFails ==
    (configResult # <<>> /\ configCall.fn = "getNetworkConfig") =>
        configResult[1] \in {JsObject("testnet"), JsObject("mainnet")}

(***************************************************************************)
(* C19: every result of a successfully completed run of the deployment     *)
(* pipeline carries the simulated flag with the value false (the flag is   *)
(* true only on the placeholder's results).                                *)
(***************************************************************************)
C19_RealResultNotSimulated ==
    (pc = "done" /\ result.status = "returned") => result.simulated = "false"

(***************************************************************************)
(* C20: in every reachable state of the wallet session, under any          *)
(* interleaving of probe ticks, refresh, connect, disconnect and           *)
(* switchNetwork, with the extension appearing at an arbitrary time,       *)
(* walletAddress is non-null only if isFreighterInstalled is true.         *)
(***************************************************************************)
C20_AddressOnlyIfInstalled ==
    walletAddress # Null => isFreighterInstalled

\* the extension appeared while the probe was still ticking, the tick that
\* found it started the refresh that stored the address, and calls were made
C20_Witness ==
    /\ walletAddress \in Accounts
    /\ isFreighterInstalled
    /\ probe.started /\ ~probe.timer /\ probe.checksRemaining = 0
    /\ probe.gaveUp = 0
    /\ callsMade = MaxCalls
    /\ disconnectCall.outcome = "returned"

(***************************************************************************)
(* C21: in every reachable state of the wallet session chainId and network *)
(* are consistent: whenever chainId is non-null it is the chainId of the   *)
(* network-config entry of the session's current network.                  *)
(***************************************************************************)
C21_ChainIdMatchesNetwork ==
    chainId # <<>> => chainId = <<Deref(getNetworkConfig(network)).chainId>>

\* the session moved to mainnet and its chain id followed
C21_Witness ==
    /\ network = "mainnet"
    /\ chainId = <<1>>
    /\ walletAddress \in Accounts
    /\ switchCall.outcome = "true"

(***************************************************************************)
(* C22: a refresh with the extension present asks for the connection       *)
(* status, the authorization status, the account and the network, in that  *)
(* order; at the first negative answer (not connected, or not authorized)  *)
(* it sets walletAddress to null and asks nothing further.                 *)
(***************************************************************************)
C22_RefreshShortCircuits ==
    [][/\ RefreshIsConnectedSettled("connected") => refreshCall'.pc = "isAllowed"
       /\ RefreshIsConnectedSettled("not-connected") =>
             /\ walletAddress' = Null
             /\ refreshCall'.pc = "idle"
             /\ extensionCalls' = extensionCalls
       /\ RefreshIsAllowedSettled("allowed") => refreshCall'.pc = "getAddress"
       /\ RefreshIsAllowedSettled("not-allowed") =>
             /\ walletAddress' = Null
             /\ refreshCall'.pc = "idle"
             /\ extensionCalls' = extensionCalls
       /\ \A a \in Accounts :
             RefreshGetAddressSettled(a) => refreshCall'.pc = "getNetwork"]_vars

(***************************************************************************)
(* C23: if a call to the extension made during a refresh throws, the       *)
(* refresh still completes normally: refreshConnection returns, nothing    *)
(* reaches its caller, and walletAddress ends null.                        *)
(***************************************************************************)
C23_RefreshCatchesExceptions ==
    [][(\/ RefreshIsConnectedSettled("threw")
        \/ RefreshIsAllowedSettled("threw")
        \/ RefreshGetAddressSettled("threw")
        \/ RefreshGetNetworkSettled("threw")) =>
           /\ refreshCall' = RefreshReturned
           /\ walletAddress' = Null
           /\ UNCHANGED <<network, chainId, error, isFreighterInstalled>>]_vars

\* a session that had an account, after a refresh whose query threw
C23_Witness ==
    /\ refreshCall = RefreshReturned
    /\ connectCall.outcome = "returned"
    /\ walletAddress = Null
    /\ chainId # <<>>
    /\ isFreighterInstalled
    /\ callsMade = 2
    /\ [by |-> "refresh", fn |-> "isAllowed", args |-> <<>>] \notin extensionCalls

C25_ProbeBoundedStopsAtSuccess ==
    /\ [](/\ probe.checksRemaining \in 0..ProbeChecks
          /\ probe.refreshes <= 1
          /\ probe.at <= ProbeChecks * ProbeIntervalMs
          /\ probe.timer =>
                probe.at = (ProbeChecks - probe.checksRemaining + 1) * ProbeIntervalMs)
    /\ [][(ProbeAtMount \/ ProbeTick) =>
             IF freighterApi
             THEN /\ isFreighterInstalled'
                  /\ probe.refreshes = 0 /\ probe'.refreshes = 1
                  /\ refreshCall' = [IdleRefresh EXCEPT !.pc = "isConnected"]
                  /\ ~probe'.timer
             ELSE /\ probe'.refreshes = 0
                  /\ refreshCall' = refreshCall]_vars
    /\ [][(ProbeTick /\ probe'.timer) =>
             /\ probe'.at = probe.at + ProbeIntervalMs
             /\ probe'.checksRemaining = probe.checksRemaining - 1]_vars
    /\ [][(probe.started /\ ~probe.timer) => probe' = probe]_vars

\* the extension appeared between two ticks; the next tick found it, and
\* the component's calls came afterwards
C25_Witness ==
    /\ probe = [started |-> TRUE, timer |-> FALSE, checksRemaining |-> 0,
                gaveUp |-> 0, refreshes |-> 1, at |-> 0,
                unmounted |-> FALSE]
    /\ isFreighterInstalled
    /\ callsMade = MaxCalls
    /\ walletAddress \in Accounts

(***************************************************************************)
(* C26: a network change the extension reports out-of-band (the user       *)
(* selects another network inside the extension, not through connect or    *)
(* switchNetwork) leads to the session's network and chainId being         *)
(* re-derived to the reported network (by a handler the session            *)
(* subscribes, and releases when it is torn down).                         *)
(***************************************************************************)
C26_NetworkChangeRederivesSession ==
    [][\A name \in ExtensionNetworks :
          NetworkChangedInExtension(name) =>
              /\ network' = mapNetworkKey(name)
              /\ chainId' = <<Deref(getNetworkConfig(mapNetworkKey(name))).chainId>>]_vars

(***************************************************************************)
(* C27: if the wallet denies or errors on the signature request for a      *)
(* stage's transaction, the deployment aborts: nothing is submitted to the *)
(* RPC endpoint for that transaction and no later stage runs.              *)
(***************************************************************************)
C27_SignFailureAborts ==
    /\ [][\A answer \in SignAnswers \ {"signed"} :
             SignSettled(answer) =>
                 /\ pc' = "failed"
                 /\ result'.status = "threw"
                 /\ result'.error = SignFailureMessage(answer)
                 /\ calls' = calls]_vars
    /\ [](result.error \in {SignFailureMessage(a) : a \in SignAnswers} =>
             /\ pc = "failed"
             /\ calls[<<stage, "sign">>] = 1
             /\ calls[<<stage, "send">>] = 0
             /\ polls = 0
             /\ txHash[stage] = NoHash
             /\ NoCallsIn(LaterStages(stage)))

\* the upload and the instantiation went through and the wallet answered the
\* third signature request with an error
C27_Witness ==
    /\ pc = "failed"
    /\ stage = "init"
    /\ result.error = SignFailureMessage("error")
    /\ txStatus["create"] = "SUCCESS"
    /\ calls[<<"init", "sign">>] = 1
    /\ calls[<<"init", "send">>] = 0

(***************************************************************************)
(* C28: if the submit response for a stage's transaction reports an error  *)
(* status or carries no transaction identifier, the deployment aborts: no  *)
(* confirmation poll is made for that transaction and no later stage runs. *)
(***************************************************************************)
SubmitFailureMessages ==
    {"Soroban RPC rejected the transaction",
     "Soroban RPC did not return a transaction hash"}

C28_SubmitFailureAborts ==
    /\ [][\A status \in SendStatuses, hasHash \in BOOLEAN :
             (SendSettled(status, hasHash) /\ (status = "ERROR" \/ ~hasHash)) =>
                 /\ pc' = "failed"
                 /\ result'.status = "threw"
                 /\ result'.error \in SubmitFailureMessages
                 /\ polls' = 0
                 /\ calls' = calls]_vars
    /\ [](result.error \in SubmitFailureMessages =>
             /\ pc = "failed"
             /\ txStatus[stage] = "ERROR" \/ txHash[stage] = NoHash
             /\ calls[<<stage, "send">>] = 1
             /\ polls = 0
             /\ NoCallsIn(LaterStages(stage)))

\* the upload went through; the instantiation was accepted as PENDING but the
\* response carried no hash
C28_Witness ==
    /\ pc = "failed"
    /\ stage = "create"
    /\ result.error = "Soroban RPC did not return a transaction hash"
    /\ txStatus["upload"] = "SUCCESS"
    /\ txStatus["create"] = "PENDING"
    /\ txHash["create"] = NoHash
    /\ polls = 0

(***************************************************************************)
(* C29: a stage completes only when its transaction is observed with       *)
(* status SUCCESS.  An observed FAILED status aborts the deployment with a *)
(* 'transaction failed' error, which is not the confirmation-timeout       *)
(* error, and in neither case does a later stage run.                      *)
(***************************************************************************)
C29_OnlySuccessCompletesStage ==
    /\ [][\A status \in TxStatuses :
             TransactionFailed(status) =>
                 /\ status = "FAILED"
                 /\ pc' = "failed"
                 /\ result'.status = "threw"
                 /\ result'.error = TransactionFailedMessage
                 /\ result'.error # TimedOutMessage
                 /\ calls' = calls]_vars
    /\ [](result.error = TransactionFailedMessage =>
             /\ pc = "failed"
             /\ txStatus[stage] = "FAILED"
             /\ NoCallsIn(LaterStages(stage)))
    /\ [](result.error = TimedOutMessage =>
             /\ pc = "failed"
             /\ txStatus[stage] = "NOT_FOUND"
             /\ NoCallsIn(LaterStages(stage)))
    /\ [](\A s \in StageSet :
             (Submitted(s) /\ (pc = "done" \/ \E t \in LaterStages(s) : Started(t))) =>
                 txStatus[s] = "SUCCESS")

\* the instantiation was polled twice: NOT_FOUND, then FAILED
C29_Witness ==
    /\ pc = "failed"
    /\ stage = "create"
    /\ result.error = TransactionFailedMessage
    /\ txStatus["upload"] = "SUCCESS"
    /\ txStatus["create"] = "FAILED"
    /\ polls = 2
    /\ NoCallsIn(LaterStages("create"))

(***************************************************************************)
(* C30: a confirmed stage whose typed return value has the wrong shape     *)
(* aborts the deployment with a decoding error: when the upload's return   *)
(* value is absent or not a byte string no instantiate call is made, and   *)
(* when the instantiation's is absent or not an address no initialize or   *)
(* mint call is made.                                                      *)
(***************************************************************************)
DecodingMessage(s) ==
    IF s = "upload" THEN "Unexpected response when uploading contract WASM"
    ELSE "Unexpected response when creating the contract instance"

ExpectedShape(s) == IF s = "upload" THEN "scvBytes" ELSE "scvAddress"

C30_WrongShapeAborts ==
    \A s \in {"upload", "create"} :
        (txStatus[s] = "SUCCESS" /\ txReturn[s] # ExpectedShape(s)) =>
            /\ pc = "failed"
            /\ stage = s
            /\ result.status = "threw"
            /\ result.error = DecodingMessage(s)
            /\ NoCallsIn(LaterStages(s))

\* the upload returned its hash; the instantiation was confirmed with a byte
\* string where the address should be
C30_Witness ==
    /\ pc = "failed"
    /\ stage = "create"
    /\ txStatus["upload"] = "SUCCESS" /\ txReturn["upload"] = "scvBytes"
    /\ txStatus["create"] = "SUCCESS" /\ txReturn["create"] = "scvBytes"
    /\ result.error = DecodingMessage("create")
    /\ NoCallsIn({"init", "mint"})

(***************************************************************************)
(* C31: once the bytecode artifact has been fetched successfully, every    *)
(* later deployment in the process reuses the cached artifact and issues   *)
(* no fetch.  A fetch that does not succeed aborts the deployment with a   *)
(* download error before any RPC or wallet call and leaves the cache       *)
(* empty, so that the next deployment fetches again.                       *)
(***************************************************************************)
DownloadErrors ==
    {"Failed to download Soroban token contract WASM", "Failed to fetch"}

C31_ArtifactCachedAfterFirstFetch ==
    /\ [][\A supply \in Supplies :
             deploySorobanContract(supply) =>
                 IF cachedTokenWasm # <<>>
                 THEN /\ calls'[FetchCall] = 0
                      /\ pc' = "getAccount"
                      /\ cachedTokenWasm' = cachedTokenWasm
                 ELSE /\ calls'[FetchCall] = 1
                      /\ pc' = "fetch"]_vars
    /\ [][deployOverlapping =>
             overlap' = IF cachedTokenWasm # <<>> THEN "cached" ELSE "fetch"]_vars
    /\ [][\A outcome \in FetchOutcomes \ {"ok"} :
             FetchSettled(outcome) =>
                 /\ pc' = "failed"
                 /\ result'.status = "threw"
                 /\ result'.error \in DownloadErrors
                 /\ cachedTokenWasm' = cachedTokenWasm
                 /\ \A t \in StageSet : \A k \in CallKinds : calls'[<<t, k>>] = 0]_vars
    /\ [](calls[FetchCall] <= 1)
    /\ []((pc = "fetch" /\ overlap \in {"none", "cached"}) => cachedTokenWasm = <<>>)

\* the first run's fetch failed; the second fetched, filled the cache and
\* went on to the upload
C31_Witness ==
    /\ runs = 2
    /\ overlap = "none"
    /\ cachedTokenWasm = <<"wasm">>
    /\ cacheWrites = 1
    /\ calls[FetchCall] = 1
    /\ Started("upload")

(***************************************************************************)
(* C32: the cached bytecode slot is written at most once in a process      *)
(* lifetime and never changes once it is set, also when two deployments    *)
(* are started while the cache is still empty.                             *)
(***************************************************************************)
C32_CacheWrittenOnce ==
    /\ [](cacheWrites <= 1)
    /\ [][cachedTokenWasm # <<>> => cachedTokenWasm' = cachedTokenWasm]_vars

\* C33: for every accepted supply string (surrounding blanks aside, a decimal
\* w or w.f whose fraction has at most `decimals` digits) and every precision,
\* toBigIntAmount returns exactly w * 10^decimals + f * 10^(decimals - Len(f)),
\* the fraction counting as zero when it is missing, with every digit of an
\* arbitrarily large whole part kept.
C33_ExactScaledInteger ==
    LET base == Trim(amount)
        n == Len(SplitFraction(base))
    IN  (/\ parsed # <<>>
         /\ NumericPattern(base)
         /\ n <= decimals) =>
            /\ parsed[1].ok
            /\ LET w == BigFromString(SplitWhole(base))
                   f == BigFromString(SplitFraction(base))
               IN  /\ parsed[1].value
                          = BigAdd(BigMul(w, Pow10(decimals)),
                                   BigMul(f, Pow10(decimals - n)))
                   /\ QuotientPow10(parsed[1].value, decimals) = w

C33_Witness ==
    /\ amount = BeyondDouble \o <<".", "5">>
    /\ decimals = TOKEN_DECIMALS
    /\ parsed = <<Returned(<<0, 0, 0, 0, 0, 0, 5>> \o BigFromString(BeyondDouble))>>

(***************************************************************************)
(* Properties of the deploy modal.                                         *)
(***************************************************************************)
\* the calls of deploySorobanContract that have not settled
InFlight == {k \in DOMAIN deployRuns : deployRuns[k].pc = "deploy"}

\* the step appends a call of deploySorobanContract
DeployCalled == Len(deployRuns') = Len(deployRuns) + 1

\* C34: the placeholder deploySorobanContract never throws; whatever it is
\* called with, it returns explorerUrl null and simulated true with two
\* identifiers it drew itself, without fetching the artifact, calling the
\* RPC server or asking the wallet for anything.
C34_PlaceholderAlwaysSimulated ==
    /\ [][\A k \in 1..MaxRuns, c \in RandomDraws, t \in RandomDraws :
             PlaceholderTimerFired(k, c, t) =>
                /\ deployRuns'[k].pc = "resolved"
                /\ ~deployRuns'[k].onChain
                /\ summary' = <<[contractId |-> <<"CD", c>>,
                                 transactionId |-> <<"SIM-", t>>,
                                 network |-> deployRuns[k].network,
                                 explorerUrl |-> Null,
                                 simulated |-> "true"]>>
                /\ step' = "success"
                /\ extensionCalls' = extensionCalls
                /\ callsMade' = callsMade
                /\ varsDeploy' = varsDeploy]_vars
    /\ [](deployerModule = "placeholder" =>
             \A k \in DOMAIN deployRuns : deployRuns[k].pc # "rejected")

C34_Witness ==
    /\ deployerModule = "placeholder"
    /\ deployRuns = <<FinishedRun("resolved", FALSE)>>
    /\ step = "success"
    /\ summary # <<>>
    /\ summary[1].simulated = "true"
    /\ summary[1].explorerUrl = Null
    /\ summary[1].network = "mainnet"
    /\ Len(deployedContracts) = 1

\* C35: when a call of deploySorobanContract throws in any stage, handleDeploy
\* leaves step "error", the thrown message as the one error, loading false,
\* and neither a stored contract nor a summary; the transactions the call had
\* confirmed stay, and nothing is called to undo them.  A Retry makes a new
\* call with the form's arguments, which owes nothing to the call that threw,
\* and a call that threw is never touched again.
C35_AbortShownRetryRestarts ==
    /\ [][\A k \in 1..MaxRuns, st \in StageSet :
             PipelineAborted(k, st) =>
                /\ step' = "error"
                /\ modalError' = PipelineError(st)
                /\ loading' = FALSE
                /\ deployedContracts' = deployedContracts
                /\ summary' = summary
                /\ deployRuns'[k] = FinishedRun("rejected", LeftOnChain(st))
                /\ Len(deployRuns') = Len(deployRuns)
                /\ extensionCalls' = extensionCalls]_vars
    /\ [][\A hasBlocks \in BOOLEAN :
             (handleDeploy(hasBlocks) /\ step = "error" /\ DeployCalled) =>
                /\ deployRuns' = Append(deployRuns,
                                        [network |-> selectedNetwork,
                                         walletAddress |-> walletAddress,
                                         pc |-> "deploy", onChain |-> FALSE])
                /\ step' = "deploying"
                /\ modalError' = Null]_vars
    /\ [][\A k \in DOMAIN deployRuns :
             deployRuns[k].pc = "rejected" => deployRuns'[k] = deployRuns[k]]_vars

C35_Witness ==
    /\ Len(deployRuns) = 2
    /\ deployRuns[1] = FinishedRun("rejected", TRUE)
    /\ deployRuns[2].pc = "deploy"
    /\ step = "deploying"
    /\ deployedContracts = <<>>

\* C36: at most one call of deploySorobanContract made by the modal is in
\* flight at any time.
C36_OneDeploymentAtATime == Cardinality(InFlight) <= 1

\* C38: whenever handleDeploy calls deploySorobanContract, the network it
\* passes is the network of the wallet session.
C38_DeploysToSessionNetwork ==
    [][\A hasBlocks \in BOOLEAN :
          (handleDeploy(hasBlocks) /\ DeployCalled) =>
              deployRuns'[Len(deployRuns')].network = network]_vars

\* C37: once disconnect has cleared the session, a connect or a refresh that
\* was in flight when disconnect ran does not set the address: the step in
\* which such a call ends leaves walletAddress null.
C37_DisconnectNotUndone ==
    /\ [][\A r \in AccessResults :
             (ConnectAccessSettled(r) /\ connectCall.outcome = "overtaken"
                 /\ walletAddress = Null) => walletAddress' = Null]_vars
    /\ [][\A o \in {"TESTNET", "PUBLIC", "public", "", "threw"} :
             (RefreshGetNetworkSettled(o) /\ refreshCall.outcome = "overtaken"
                 /\ walletAddress = Null) => walletAddress' = Null]_vars

\* C39 as stated: isConnecting is true only while a connect call is in flight;
\* a connect call that reaches the extension starts with error null and
\* isConnecting true; every connect call ends with isConnecting false, and
\* with error non-null exactly when the call threw.
C39_ConnectingAndErrorExact ==
    /\ [](isConnecting => connectCall.pc = "requestAccess")
    /\ [][\A t \in TargetNetworks :
             Connect(t) =>
                 IF freighterApi
                 THEN error' = Null /\ isConnecting'
                 ELSE error' # Null /\ ~isConnecting'
                      /\ connectCall'.outcome = "threw"]_vars
    /\ [][\A r \in AccessResults :
             ConnectAccessSettled(r) =>
                 /\ ~isConnecting'
                 /\ (error' # Null) <=> (connectCall'.outcome = "threw")]_vars

\* C39: isConnecting is true only while a connect call is in flight; a
\* connect call that reaches the extension starts with error null and
\* isConnecting true; every connect call ends with isConnecting false; a
\* call that threw ends with error non-null, and a call that returned leaves
\* error as it was just before it ended (null, unless another operation set
\* it while the connect was in flight).
C39_ConnectingAndError ==
    /\ [](isConnecting => connectCall.pc = "requestAccess")
    /\ [][\A t \in TargetNetworks :
             Connect(t) =>
                 IF freighterApi
                 THEN error' = Null /\ isConnecting'
                 ELSE error' # Null /\ ~isConnecting'
                      /\ connectCall'.outcome = "threw"]_vars
    /\ [][\A r \in AccessResults :
             ConnectAccessSettled(r) =>
                 /\ ~isConnecting'
                 /\ connectCall'.outcome = "threw" => error' # Null
                 /\ connectCall'.outcome = "returned" => error' = error]_vars

\* a connect returned while the message of a switch that failed during it stood
C39_Witness ==
    /\ connectCall.outcome = "returned"
    /\ connectCall.pc = "idle"
    /\ walletAddress = "GA"
    /\ ~isConnecting
    /\ switchCall.outcome = "false"
    /\ error = "Extension context invalidated"

\* C40: once the component has unmounted, the probe's interval is not live,
\* no interval callback runs, and the probe neither counts an attempt nor
\* starts a refresh nor gives up, whether or not the extension appears later.
C40_TeardownCancelsProbe ==
    /\ [](probe.unmounted => ~probe.timer)
    /\ [][probe.unmounted => ~ProbeTick]_vars
    /\ [][probe.unmounted =>
             /\ probe'.checksRemaining = probe.checksRemaining
             /\ probe'.refreshes = probe.refreshes
             /\ probe'.gaveUp = probe.gaveUp
             /\ probe'.unmounted]_vars

\* unmounted after some attempts, with attempts left; the extension has
\* appeared and no refresh was started for it
C40_Witness ==
    /\ probe.unmounted
    /\ freighterApi
    /\ probe.checksRemaining = ProbeChecks - 2
    /\ probe.refreshes = 0
    /\ ~isFreighterInstalled
    /\ refreshCall.pc = "idle"

====
